---------------------------- MODULE Spec2Model ----------------------------
(***************************************************************************)
(* ReelTalkBot: the dispatch-and-governance core.                          *)
(*                                                                         *)
(*   usage.UsageCache                  per-sender sliding-window limiter   *)
(*   conversation.ConversationCache    per-sender history with expiry      *)
(*   App.HealthCheck / isKnowledgeBaseDown   knowledge-base health flag    *)
(*   App.ProcessMessage                one DirectQuestion turn             *)
(*                                                                         *)
(* Time is a discrete clock `now`.  A method that holds its mutex for the  *)
(* whole body (CanUserChat, AddUsage, TimeUntilLimitReset, Get, Set) is    *)
(* one step taken at one clock reading; the clock may advance between two  *)
(* such calls of the same turn.                                            *)
(***************************************************************************)
EXTENDS Integers, Sequences, FiniteSets, TLC

(***************************************************************************)
(* Bounds of the model.  limit, duration, expiry and interval are fields   *)
(* set at construction (10 messages, 10 minutes, 30 minutes, 30 seconds);  *)
(* they are scaled down to a few clock ticks here.                         *)
(***************************************************************************)
limit == 1

duration == 2

MaxTimeL == 3

MaxPending == 2

MaxRec == 3

expiry == 2

MaxTimeS == 5

MaxTurns == 2
\* Number of command and callback updates (HandleUpdate goroutines).
MaxUpdates == 3
\* Number of updates being handled at the same time.
MaxInFlight == 2

interval == 2

HealthTimeout == 1

MaxTimeH == 7

TickSeconds == 45
\* Number of goroutines that call logToS3, and number of calls in all.
MaxLoggers == 2

MaxLogCalls == 4

Senders == {1, 2}

\* NO_LIMIT_USERS: sender 2 is unmetered, sender 1 is metered.
NoLimitUsers == {2}

VARIABLES
    now,        \* the clock, in ticks
    users,      \* UsageCache.users: sender -> sequence of timestamps
    pendingAdd, \* sender -> turns past the rate check that have not yet called AddUsage
    pendingTUR, \* sender -> rejected turns that have not yet called TimeUntilLimitReset
    lastTUR,    \* the last TimeUntilLimitReset call: who asked, when, the answer
    data,       \* ConversationCache.data: key -> [data, lastSeen]
    sweepDue,   \* when the cleanup goroutine's ticker fires next
    cleanup,    \* the cleanup goroutine: "running" or "stopped"
    closed,     \* whether cleanupCh has been closed
    lastSet,    \* key -> the value and time of the last Set of that key (at = -1: never)
    lastGet,    \* the last Get since the last Set: key, time, found, value
    KnowledgeBaseActive,  \* KNOWLEDGE_BASE=ON
    KnowledgeBaseClient,  \* "nil" or "client"
    isKnowledgeBaseDown,  \* the health flag
    lastProbe,  \* outcome of the monitor's last completed probe: "none", "ok", "err"
    monPc,      \* the monitor goroutine: "sleep" or "probe"
    monDue,     \* when its sleep ends, or when its probe times out
    probeSaw,   \* the outcomes the probe in flight may report
    kbFails,    \* whether a probe handled now would fail
    since,      \* since when kbFails has had its present value
    agreedAt,   \* when the flag first agreed with kbFails since then (-1: not yet)
    inFlight,   \* lookups of turns that are in flight
    pc,         \* turn -> where the turn is in ProcessMessage
    turnUser,   \* turn -> its sender (userID)
    messages,   \* turn -> its local conversation (a sequence of OpenAIMessage)
    timeRemaining, \* turn -> what TimeUntilLimitReset told a rejected turn
    events,     \* turn -> the external calls it has made, in order
    result,     \* turn -> what ProcessMessage returned
    limitMsg,   \* turn -> the minutes and seconds of its rate-limit message
    entries,    \* turn -> what its knowledge lookup returned
    reply,      \* turn -> the answer it handed to SendMessage
    pendingNext, \* a lookup has failed and no turn has started since ("error"),
                \* and a probe has succeeded in between ("recovered")
    afterError, \* turn -> pendingNext as it was when the turn started
    promptMap,  \* the callback ids registered by /help (each maps to its prompt)
    writers,    \* number of goroutines inside an assignment to promptMap
    crashed,    \* the process has died of a fatal runtime error
    upd,        \* slot -> the command or callback update handled there (pc "fatal": the
                \* goroutine in which the runtime stopped the process)
    responseText, \* the answer a turn has obtained: its source and the lengths of its parts
    finalMessage, \* the length of the text handed to SendMessage for it (-1: not yet)
    s3Object,   \* logs/telegram_logs.csv in the bucket: its rows (<<>>: no object)
    logger,     \* goroutine -> where it is in logToS3, its record, its existingData
    uploaded,   \* the records of the calls whose PutObject succeeded, in call order
    logCalls,   \* number of calls of logToS3 that have taken logMutex
    msg,        \* the message handed to TelegramHandler.HandleTelegramMessage
    intent      \* what the handler made of it ("none": not yet handled)

limVars == <<users, pendingAdd, pendingTUR, lastTUR>>

storeVars == <<data, sweepDue, cleanup, closed, lastSet, lastGet>>

monVars == <<monPc, monDue, probeSaw, kbFails, since, agreedAt, inFlight>>

healthVars == <<KnowledgeBaseActive, KnowledgeBaseClient, isKnowledgeBaseDown, lastProbe, monVars>>

outVars == <<limitMsg, entries, reply>>

ghostVars == <<pendingNext, afterError>>

\* TelegramHandler.HandleTelegramMessage: its argument and what it does with it.
logVars == <<s3Object, logger, uploaded, logCalls>>

composeVars == <<responseText, finalMessage, logVars>>

classVars == <<msg, intent, composeVars>>

\* HandleUpdate: the prompt registry and the updates being handled.
dispVars == <<promptMap, writers, crashed, upd, classVars>>

turnVars == <<pc, turnUser, messages, timeRemaining, events, result, outVars, ghostVars,
              dispVars>>

vars == <<now, limVars, storeVars, healthVars, turnVars>>

None == [user |-> 0, at |-> 0, val |-> 0]

(***************************************************************************)
(* usage.UsageCache                                                        *)
(***************************************************************************)

\* time.Since(t) <= u.duration
Recent(t) == now - t <= duration

RecentStrict(t) == now - t < duration

filterRecentMessages_strict(userID) == SelectSeq(users[userID], RecentStrict)

\* The timestamps of userID that are still inside the window, in stored order.
\* A sender with no map entry gets an empty one, which reads the same.
filterRecentMessages(userID) == SelectSeq(users[userID], Recent)

CanUserChat_off_by_one(userID) == Len(filterRecentMessages(userID)) <= limit

\* CanUserChat's return value.
CanUserChat(userID) == Len(filterRecentMessages(userID)) < limit

\* CanUserChat's write: the pruned sequence replaces the stored one.
CanUserChatStore(userID) == [users EXCEPT ![userID] = filterRecentMessages(userID)]

AddUsage_twice(userID) == [users EXCEPT ![userID] = Append(Append(@, now), now)]

\* AddUsage: append time.Now().
AddUsage(userID) == [users EXCEPT ![userID] = Append(@, now)]

TimeUntilLimitReset_newest(userID) ==
    LET validTimes == filterRecentMessages(userID)
    IN  IF Len(validTimes) < limit THEN 0
        ELSE duration - (now - validTimes[Len(validTimes)])

\* TimeUntilLimitReset's return value; it stores nothing.
TimeUntilLimitReset(userID) ==
    LET validTimes == filterRecentMessages(userID)
    IN  IF Len(validTimes) < limit THEN 0
        ELSE duration - (now - validTimes[1])

\* ProcessMessage, lines 159-165: the rate check of a turn.
isNoLimitUser(userID) == userID \in NoLimitUsers

canProceed_metered(userID) == CanUserChat(userID)

canProceed(userID) == isNoLimitUser(userID) \/ CanUserChat(userID)

\* NewUsageCache: an empty map; no turn is in progress.
InitUsage ==
    /\ users = [u \in Senders |-> <<>>]
    /\ pendingAdd = [u \in Senders |-> 0]
    /\ pendingTUR = [u \in Senders |-> 0]
    /\ lastTUR = None

(***************************************************************************)
(* conversation.ConversationCache                                          *)
(***************************************************************************)
Keys == Senders        \* conversationKey = "user_<userID>", one key per sender

StoreValues == {"h1", "h2"}

NoGet == [key |-> 0, at |-> 0, found |-> FALSE, data |-> ""]

\* NewConversationCache: an empty map, a ticker of period expiry, the goroutine running.
InitStore ==
    /\ data = <<>>
    /\ sweepDue = expiry
    /\ cleanup = "running"
    /\ closed = FALSE
    /\ lastSet = [k \in Keys |-> [at |-> -1, data |-> ""]]
    /\ lastGet = NoGet

\* Set: the entry is overwritten and lastSeen becomes time.Now().
Set(key, value) ==
    [k \in DOMAIN data \cup {key} |->
        IF k = key THEN [data |-> value, lastSeen |-> now] ELSE data[k]]

Get_refuses_boundary(key) ==
    IF key \notin DOMAIN data THEN [found |-> FALSE, data |-> ""]
    ELSE IF now - data[key].lastSeen >= expiry THEN [found |-> FALSE, data |-> ""]
    ELSE [found |-> TRUE, data |-> data[key].data]

\* Get: the pair it returns; it writes nothing.
Get(key) ==
    IF key \notin DOMAIN data THEN [found |-> FALSE, data |-> ""]
    ELSE IF now - data[key].lastSeen > expiry THEN [found |-> FALSE, data |-> ""]
    ELSE [found |-> TRUE, data |-> data[key].data]

Evicted_at_boundary ==
    [k \in {x \in DOMAIN data : ~(now - data[x].lastSeen >= expiry)} |-> data[k]]

\* The map after one pass of the cleanup loop's body.
Evicted ==
    [k \in {x \in DOMAIN data : ~(now - data[x].lastSeen > expiry)} |-> data[k]]

\* case <-ticker.C
Sweep ==
    /\ cleanup = "running"
    /\ now >= sweepDue
    /\ data' = Evicted
    /\ sweepDue' = sweepDue + expiry
    /\ UNCHANGED <<now, limVars, cleanup, closed, lastSet, lastGet, healthVars, turnVars>>

(***************************************************************************)
(* App: configuration, health flag, turns                                  *)
(***************************************************************************)
Turns == 1..MaxTurns

\* StartHealthCheckRoutine: the goroutine is about to run its first HealthCheck.
InitMonitor ==
    /\ monPc = "sleep"
    /\ monDue = 0
    /\ probeSaw = {}
    /\ kbFails = FALSE
    /\ since = 0
    /\ agreedAt = 0
    /\ inFlight = 0

\* NewApp: the client exists only when the knowledge base is active; the flag
\* starts false.
InitHealth ==
    /\ KnowledgeBaseActive \in BOOLEAN
    /\ KnowledgeBaseClient \in {"nil", "client"}
    /\ KnowledgeBaseClient = "client" => KnowledgeBaseActive
    /\ isKnowledgeBaseDown = FALSE
    /\ lastProbe = "none"
    /\ InitMonitor

\* The configuration with the knowledge base switched off.
InitHealthOff ==
    /\ KnowledgeBaseActive = FALSE
    /\ KnowledgeBaseClient = "nil"
    /\ isKnowledgeBaseDown = FALSE
    /\ lastProbe = "none"
    /\ InitMonitor

Updates == 1..MaxUpdates

\* No message has been received.
NoMessage == [chatID |-> 0, chatType |-> "", text |-> <<>>, entities |-> <<>>, reply |-> "none"]

NoIntent == [kind |-> "none", text |-> <<>>]

\* No update has been handed to slot k yet.
NoUpdate == [kind |-> "none", pc |-> "idle", user |-> 0, arg |-> "", calls |-> <<>>, ret |-> "none"]

NoMsg == [minutes |-> -1, seconds |-> -1]

NoReply == [src |-> "none", body |-> ""]

InitProcess ==
    /\ pc = [t \in Turns |-> "idle"]
    /\ turnUser = [t \in Turns |-> 0]
    /\ messages = [t \in Turns |-> <<>>]
    /\ timeRemaining = [t \in Turns |-> 0]
    /\ events = [t \in Turns |-> <<>>]
    /\ result = [t \in Turns |-> "none"]
    /\ limitMsg = [t \in Turns |-> NoMsg]
    /\ entries = [t \in Turns |-> <<>>]
    /\ reply = [t \in Turns |-> NoReply]
    /\ pendingNext = "none"
    /\ afterError = [t \in Turns |-> "none"]

\* NewApp, line 120: an empty promptMap; no update is being handled.
InitRegistry ==
    /\ promptMap = {}
    /\ writers = 0
    /\ crashed = FALSE
    /\ upd = [k \in Updates |-> NoUpdate]

\* No answer has been obtained.
NoResponse == [src |-> "none"]

Loggers == 1..MaxLoggers

NoCall == [pc |-> "idle", record |-> 0, existingData |-> <<>>]

\* NewApp: no call of logToS3 has been made; the bucket may hold no log yet.
InitLog ==
    /\ s3Object = <<>>
    /\ logger = [c \in Loggers |-> NoCall]
    /\ uploaded = <<>>
    /\ logCalls = 0

InitComposer ==
    /\ responseText = NoResponse
    /\ finalMessage = -1
    /\ InitLog

InitTurns ==
    /\ InitProcess
    /\ InitRegistry
    /\ InitComposer
    /\ msg = NoMessage
    /\ intent = NoIntent

SystemPrompt == [Role |-> "system", Content |-> "prompt"]

\* json.Marshal of []OpenAIMessage: one {"role", "content"} object per message.
Marshal(msgs) == [i \in DOMAIN msgs |-> <<msgs[i].Role, msgs[i].Content>>]

\* json.Unmarshal of a stored history.
Unmarshal(history) == [i \in DOMAIN history |-> [Role |-> history[i][1], Content |-> history[i][2]]]

\* a.KnowledgeBaseActive && a.KnowledgeBaseClient != nil
KnowledgeBaseUsable == KnowledgeBaseActive /\ KnowledgeBaseClient = "client"

HealthCheckFlag_sticky(err) == isKnowledgeBaseDown \/ err

\* HealthCheck: the value it assigns to isKnowledgeBaseDown for a probe outcome.
HealthCheckFlag(err) == err

\* HealthCheck with the knowledge base usable: one probe, then the assignment.
HealthCheck(err) ==
    /\ KnowledgeBaseUsable
    /\ isKnowledgeBaseDown' = HealthCheckFlag(err)
    /\ pendingNext' = IF ~err /\ pendingNext = "error" THEN "recovered" ELSE pendingNext
    /\ afterError' = [t \in Turns |->
                         IF ~err /\ afterError[t] = "error" /\ pc[t] \in {"add", "load", "gate"}
                         THEN "recovered" ELSE afterError[t]]
    /\ UNCHANGED <<now, limVars, storeVars, KnowledgeBaseActive, KnowledgeBaseClient, lastProbe,
                   monVars, pc, turnUser, messages, timeRemaining, events, result, outVars, dispVars>>

\* HealthCheck with the knowledge base off or no client: it returns at once.
HealthCheckSkip ==
    /\ ~KnowledgeBaseUsable
    /\ UNCHANGED vars

\* Turn t has not started; turns are numbered in their order of arrival.
Arrives(t) == pc[t] = "idle" /\ (IF t = 1 THEN TRUE ELSE pc[t - 1] # "idle")

\* go botApp.HandleUpdate, then lines 159-165 of ProcessMessage: a DirectQuestion
\* turn of sender u starts and passes the rate check (which is skipped for an
\* unmetered sender: CanUserChat is not called).
CheckPass(t, u) ==
    /\ Arrives(t)
    /\ canProceed(u)
    /\ users' = IF isNoLimitUser(u) THEN users ELSE CanUserChatStore(u)
    /\ turnUser' = [turnUser EXCEPT ![t] = u]
    /\ pc' = [pc EXCEPT ![t] = "add"]
    /\ afterError' = [afterError EXCEPT ![t] = pendingNext]
    /\ pendingNext' = "none"
    /\ UNCHANGED <<now, pendingAdd, pendingTUR, lastTUR, storeVars, healthVars,
                   messages, timeRemaining, events, result, outVars, dispVars>>

\* The same, the check fails.
CheckReject(t, u) ==
    /\ Arrives(t)
    /\ ~canProceed(u)
    /\ users' = CanUserChatStore(u)
    /\ turnUser' = [turnUser EXCEPT ![t] = u]
    /\ pc' = [pc EXCEPT ![t] = "limited"]
    /\ afterError' = [afterError EXCEPT ![t] = pendingNext]
    /\ pendingNext' = "none"
    /\ UNCHANGED <<now, pendingAdd, pendingTUR, lastTUR, storeVars, healthVars,
                   messages, timeRemaining, events, result, outVars, dispVars>>

LimitMessage_raw_seconds(d) ==
    [minutes |-> (d * TickSeconds) \div 60, seconds |-> d * TickSeconds]

\* Lines 169-170: the minutes and seconds of a duration of d ticks
\* (int(d.Minutes()) and int(d.Seconds()) % 60).
LimitMessage(d) ==
    [minutes |-> (d * TickSeconds) \div 60, seconds |-> (d * TickSeconds) % 60]

LimitedCalls_log_only == <<"log_limited">>

\* Lines 175-184: the calls of a refused turn, SendMessage with the rate-limit
\* message and logToS3 with isRateLimited.
LimitedCalls == <<"send_limit", "log_limited">>

\* Lines 166-185: TimeUntilLimitReset, the rate-limit reply, the log record, the
\* error return.
Limited(t) ==
    /\ pc[t] = "limited"
    /\ timeRemaining' = [timeRemaining EXCEPT ![t] = TimeUntilLimitReset(turnUser[t])]
    /\ limitMsg' = [limitMsg EXCEPT ![t] = LimitMessage(timeRemaining'[t])]
    /\ events' = [events EXCEPT ![t] = @ \o LimitedCalls]
    /\ result' = [result EXCEPT ![t] = "rate_limited"]
    /\ pc' = [pc EXCEPT ![t] = "done"]
    /\ UNCHANGED <<now, limVars, storeVars, healthVars, turnUser, entries, reply, ghostVars,
                   messages, dispVars>>

\* Line 188.
Add(t) ==
    /\ pc[t] = "add"
    /\ users' = AddUsage(turnUser[t])
    /\ pc' = [pc EXCEPT ![t] = "load"]
    /\ UNCHANGED <<now, pendingAdd, pendingTUR, lastTUR, storeVars, healthVars,
                   turnUser, outVars, ghostVars, messages, timeRemaining, events, result, dispVars>>

Prior_empty(got) == IF got.found THEN Unmarshal(got.data) ELSE <<>>

\* Lines 199-212: the messages a turn starts from, the stored history if Get found
\* one and the system prompt alone if not.
Prior(got) == IF got.found THEN Unmarshal(got.data) ELSE <<SystemPrompt>>

\* Lines 197-215: load the history (or start from the system prompt), append the
\* user message.
Load(t) ==
    /\ pc[t] = "load"
    /\ messages' = [messages EXCEPT ![t] =
                       Append(Prior(Get(turnUser[t])), [Role |-> "user", Content |-> <<"q", t>>])]
    /\ pc' = [pc EXCEPT ![t] = "gate"]
    /\ UNCHANGED <<now, limVars, storeVars, healthVars, turnUser, outVars, ghostVars, timeRemaining, events, result, dispVars>>

\* Line 220: the knowledge base is tried only when usable and not marked down.
Gate(t) ==
    /\ pc[t] = "gate"
    /\ IF KnowledgeBaseUsable /\ ~isKnowledgeBaseDown
       THEN /\ pc' = [pc EXCEPT ![t] = "kb"]
            /\ events' = [events EXCEPT ![t] = Append(@, "kb")]
       ELSE /\ pc' = [pc EXCEPT ![t] = "ai"]
            /\ events' = [events EXCEPT ![t] = Append(@, "ai")]
    /\ UNCHANGED <<now, limVars, storeVars, healthVars, turnUser, outVars, ghostVars, messages, timeRemaining, result, dispVars>>

FallThrough_retry(ev) == ev \o <<"kb", "ai">>

\* Lines 233 and 300: after a lookup that failed or found nothing the next call of
\* the turn is QueryOpenAIWithMessages.
FallThrough(ev) == Append(ev, "ai")

ProcessMessageKBError_keeps_flag == isKnowledgeBaseDown

\* Line 231: what ProcessMessage assigns to isKnowledgeBaseDown when the lookup fails.
ProcessMessageKBError == TRUE

\* Lines 229-233: GetKnowledgeEntries returned an error; OpenAI is asked instead.
KbError(t) ==
    /\ pc[t] = "kb"
    /\ isKnowledgeBaseDown' = ProcessMessageKBError
    /\ pc' = [pc EXCEPT ![t] = "ai"]
    /\ events' = [events EXCEPT ![t] = FallThrough(@)]
    /\ pendingNext' = "error"
    /\ UNCHANGED <<now, limVars, storeVars, KnowledgeBaseActive, KnowledgeBaseClient, lastProbe,
                   monVars, turnUser, outVars, afterError, messages, timeRemaining, result, dispVars>>

\* Line 259 with no entries: fall through to OpenAI (line 300).
KbEmpty(t) ==
    /\ pc[t] = "kb"
    /\ pc' = [pc EXCEPT ![t] = "ai"]
    /\ events' = [events EXCEPT ![t] = FallThrough(@)]
    /\ UNCHANGED <<now, limVars, storeVars, healthVars, turnUser, outVars, ghostVars, messages, timeRemaining,
                   result, dispVars>>

\* What GetKnowledgeEntries can return when it finds something: one entry, or two
\* in either order.
Results == {<<"e1">>, <<"e1", "e2">>, <<"e2", "e1">>}

TopEntry_last(es) == es[Len(es)]

\* Lines 259-276: entries[0] is the entry the answer is made of.
TopEntry(es) == es[1]

\* Lines 259-293: the first entry becomes the assistant message and is sent; then the
\* context is stored and the turn logged.
KbHit(t, es) ==
    /\ pc[t] = "kb"
    /\ entries' = [entries EXCEPT ![t] = es]
    /\ reply' = [reply EXCEPT ![t] = [src |-> "kb", body |-> TopEntry(es)]]
    /\ messages' = [messages EXCEPT ![t] =
                       Append(@, [Role |-> "assistant", Content |-> <<"kb", t>>])]
    /\ data' = Set(turnUser[t], Marshal(messages'[t]))
    /\ events' = [events EXCEPT ![t] = @ \o <<"send", "set", "log">>]
    /\ result' = [result EXCEPT ![t] = "nil"]
    /\ pc' = [pc EXCEPT ![t] = "done"]
    /\ UNCHANGED <<now, limVars, sweepDue, cleanup, closed, lastSet, lastGet, healthVars,
                   turnUser, limitMsg, ghostVars, timeRemaining, dispVars>>

\* Lines 282-285: the send of the knowledge-base answer fails; the error is returned
\* before the context is stored.
KbHitSendFails(t, es) ==
    /\ pc[t] = "kb"
    /\ entries' = [entries EXCEPT ![t] = es]
    /\ reply' = [reply EXCEPT ![t] = [src |-> "kb", body |-> TopEntry(es)]]
    /\ messages' = [messages EXCEPT ![t] =
                       Append(@, [Role |-> "assistant", Content |-> <<"kb", t>>])]
    /\ events' = [events EXCEPT ![t] = Append(@, "send")]
    /\ result' = [result EXCEPT ![t] = "error_send"]
    /\ pc' = [pc EXCEPT ![t] = "done"]
    /\ UNCHANGED <<now, limVars, storeVars, healthVars, turnUser, limitMsg, ghostVars,
                   timeRemaining, dispVars>>

AiFailsData_persists(t) == Set(turnUser[t], Marshal(messages[t]))

\* Lines 233-237 and 300-304: the map of the store when the turn returns the
\* generative client's error (no Set has been called).
AiFailsData(t) == data

\* Lines 233-237 and 300-304: QueryOpenAIWithMessages fails; the error is returned.
AiFails(t) ==
    /\ pc[t] = "ai"
    /\ data' = AiFailsData(t)
    /\ result' = [result EXCEPT ![t] = "error_ai"]
    /\ pc' = [pc EXCEPT ![t] = "done"]
    /\ UNCHANGED <<now, limVars, sweepDue, cleanup, closed, lastSet, lastGet, healthVars,
                   turnUser, outVars, ghostVars, messages, timeRemaining, events, dispVars>>

\* Lines 239-256 and 306-323: the answer is appended, the context stored, the answer
\* sent and the turn logged; a failed send returns the error after the store.
Answer(t, sent) ==
    /\ pc[t] = "ai"
    /\ reply' = [reply EXCEPT ![t] = [src |-> "ai", body |-> "text"]]
    /\ messages' = [messages EXCEPT ![t] =
                       Append(@, [Role |-> "assistant", Content |-> <<"ai", t>>])]
    /\ data' = Set(turnUser[t], Marshal(messages'[t]))
    /\ events' = [events EXCEPT ![t] =
                     @ \o (IF sent THEN <<"set", "send", "log">> ELSE <<"set", "send">>)]
    /\ result' = [result EXCEPT ![t] = IF sent THEN "nil" ELSE "error_send"]
    /\ pc' = [pc EXCEPT ![t] = "done"]
    /\ UNCHANGED <<now, limVars, sweepDue, cleanup, closed, lastSet, lastGet, healthVars,
                   turnUser, limitMsg, entries, ghostVars, timeRemaining, dispVars>>

\* The clock of the turns: one quiet period, longer than the limiter's window and
\* the store's expiry, may pass at any point.
QuietPeriod == duration + expiry + 1

Pause ==
    /\ now = 0
    /\ now' = QuietPeriod
    /\ UNCHANGED <<limVars, storeVars, healthVars, turnVars>>

Next ==
    \/ Pause
    \/ Sweep
    \/ \E err \in BOOLEAN : HealthCheck(err)
    \/ HealthCheckSkip
    \/ \E t \in Turns, u \in Senders : CheckPass(t, u)
    \/ \E t \in Turns, u \in Senders : CheckReject(t, u)
    \/ \E t \in Turns : Limited(t)
    \/ \E t \in Turns : Add(t)
    \/ \E t \in Turns : Load(t)
    \/ \E t \in Turns : Gate(t)
    \/ \E t \in Turns : KbError(t)
    \/ \E t \in Turns : KbEmpty(t)
    \/ \E t \in Turns, es \in Results : KbHit(t, es)
    \/ \E t \in Turns, es \in Results : KbHitSendFails(t, es)
    \/ \E t \in Turns : AiFails(t)
    \/ \E t \in Turns, sent \in BOOLEAN : Answer(t, sent)

Init == now = 0 /\ InitUsage /\ InitStore /\ InitHealth /\ InitTurns

Spec == Init /\ [][Next]_vars

(***************************************************************************)
(* Turns one at a time: each call of ProcessMessage returns, and its       *)
(* goroutine ends, before the next update arrives.  The monitor, the       *)
(* sweeper and the clock run before, during and after each turn.           *)
(***************************************************************************)
\* No turn is under way.
Quiet == \A t \in Turns : pc[t] \in {"idle", "gone"}

\* ProcessMessage has returned to HandleUpdate; the goroutine ends and its locals
\* are gone.
ExitTurn(t) ==
    /\ pc[t] = "done"
    /\ pc' = [pc EXCEPT ![t] = "gone"]
    /\ turnUser' = [turnUser EXCEPT ![t] = 0]
    /\ messages' = [messages EXCEPT ![t] = <<>>]
    /\ timeRemaining' = [timeRemaining EXCEPT ![t] = 0]
    /\ events' = [events EXCEPT ![t] = <<>>]
    /\ result' = [result EXCEPT ![t] = "none"]
    /\ limitMsg' = [limitMsg EXCEPT ![t] = NoMsg]
    /\ entries' = [entries EXCEPT ![t] = <<>>]
    /\ reply' = [reply EXCEPT ![t] = NoReply]
    /\ afterError' = [afterError EXCEPT ![t] = "none"]
    /\ UNCHANGED <<now, limVars, storeVars, healthVars, pendingNext>>

Exit(t) == ExitTurn(t) /\ UNCHANGED dispVars

\* An update arrives while no turn is under way.
StartPass(t, u) == Quiet /\ CheckPass(t, u)

StartReject(t, u) == Quiet /\ CheckReject(t, u)

NextTurn ==
    \/ Pause
    \/ Sweep
    \/ \E err \in BOOLEAN : HealthCheck(err)
    \/ HealthCheckSkip
    \/ \E t \in Turns, u \in Senders : StartPass(t, u)
    \/ \E t \in Turns, u \in Senders : StartReject(t, u)
    \/ \E t \in Turns : Limited(t)
    \/ \E t \in Turns : Add(t)
    \/ \E t \in Turns : Load(t)
    \/ \E t \in Turns : Gate(t)
    \/ \E t \in Turns : KbError(t)
    \/ \E t \in Turns : KbEmpty(t)
    \/ \E t \in Turns, es \in Results : KbHit(t, es)
    \/ \E t \in Turns, es \in Results : KbHitSendFails(t, es)
    \/ \E t \in Turns : AiFails(t)
    \/ \E t \in Turns, sent \in BOOLEAN : Answer(t, sent)
    \/ \E t \in Turns : Exit(t)

InitTurnSpec == now = 0 /\ InitUsage /\ InitStore /\ InitHealth /\ InitTurns

SpecTurn == InitTurnSpec /\ [][NextTurn]_vars

(***************************************************************************)
(* The health flag with the clock: the monitor goroutine                   *)
(* (for { HealthCheck(); time.Sleep(interval) }), the knowledge base       *)
(* changing between answering and failing, and the lookups of turns.  A    *)
(* probe returns within HealthTimeout of its start and reports an outcome  *)
(* the knowledge base had at some instant of its flight; the goroutine     *)
(* wakes when its sleep ends.                                              *)
(***************************************************************************)
config == <<KnowledgeBaseActive, KnowledgeBaseClient>>

\* The flag was just written: note when it first agrees with kbFails.
Agreed(flag, fails, at) ==
    IF at >= 0 THEN at ELSE IF flag = fails THEN now ELSE -1

SleepUntil_twice == now + 2 * interval

\* StartHealthCheckRoutine: time.Sleep(interval) starts when HealthCheck has returned.
SleepUntil == now + interval

\* The loop calls HealthCheck; with the knowledge base usable the probe goes out.
MonProbe ==
    /\ monPc = "sleep"
    /\ now >= monDue
    /\ KnowledgeBaseUsable
    /\ monPc' = "probe"
    /\ monDue' = now + HealthTimeout
    /\ probeSaw' = {kbFails}
    /\ UNCHANGED <<now, limVars, storeVars, config, isKnowledgeBaseDown, lastProbe,
                   kbFails, since, agreedAt, inFlight, turnVars>>

\* The loop calls HealthCheck; it returns at once (lines 823-825), and the loop sleeps.
MonSkip ==
    /\ monPc = "sleep"
    /\ now >= monDue
    /\ ~KnowledgeBaseUsable
    /\ monDue' = SleepUntil
    /\ UNCHANGED <<now, limVars, storeVars, config, isKnowledgeBaseDown, lastProbe,
                   monPc, probeSaw, kbFails, since, agreedAt, inFlight, turnVars>>

\* The probe returns (lines 835-845), and the loop sleeps.
MonReturn(err) ==
    /\ monPc = "probe"
    /\ err \in probeSaw
    /\ isKnowledgeBaseDown' = HealthCheckFlag(err)
    /\ lastProbe' = IF err THEN "err" ELSE "ok"
    /\ agreedAt' = Agreed(isKnowledgeBaseDown', kbFails, agreedAt)
    /\ monPc' = "sleep"
    /\ monDue' = SleepUntil
    /\ probeSaw' = {}
    /\ UNCHANGED <<now, limVars, storeVars, config, kbFails, since, inFlight, turnVars>>

\* The knowledge base starts failing, or starts answering again.
EnvFlip ==
    /\ kbFails' = ~kbFails
    /\ since' = now
    /\ agreedAt' = IF isKnowledgeBaseDown = kbFails' THEN now ELSE -1
    /\ probeSaw' = IF monPc = "probe" THEN probeSaw \cup {kbFails'} ELSE probeSaw
    /\ UNCHANGED <<now, limVars, storeVars, config, isKnowledgeBaseDown, lastProbe,
                   monPc, monDue, inFlight, turnVars>>

TurnLookup_ignores_flag ==
    /\ KnowledgeBaseUsable
    /\ inFlight < MaxPending
    /\ inFlight' = inFlight + 1
    /\ UNCHANGED <<now, limVars, storeVars, config, isKnowledgeBaseDown, lastProbe,
                   monPc, monDue, probeSaw, kbFails, since, agreedAt, turnVars>>

\* Line 220 of some turn: the lookup goes out.
TurnLookup ==
    /\ KnowledgeBaseUsable
    /\ ~isKnowledgeBaseDown
    /\ inFlight < MaxPending
    /\ inFlight' = inFlight + 1
    /\ UNCHANGED <<now, limVars, storeVars, config, isKnowledgeBaseDown, lastProbe,
                   monPc, monDue, probeSaw, kbFails, since, agreedAt, turnVars>>

\* Lines 229-231 of that turn: the lookup returned an error.
TurnLookupError ==
    /\ inFlight > 0
    /\ inFlight' = inFlight - 1
    /\ isKnowledgeBaseDown' = ProcessMessageKBError
    /\ agreedAt' = Agreed(isKnowledgeBaseDown', kbFails, agreedAt)
    /\ UNCHANGED <<now, limVars, storeVars, config, lastProbe,
                   monPc, monDue, probeSaw, kbFails, since, turnVars>>

\* Line 259 of that turn: the lookup returned entries, or none.
TurnLookupReturn ==
    /\ inFlight > 0
    /\ inFlight' = inFlight - 1
    /\ UNCHANGED <<now, limVars, storeVars, config, isKnowledgeBaseDown, lastProbe,
                   monPc, monDue, probeSaw, kbFails, since, agreedAt, turnVars>>

\* Time passes unless the monitor has something due.
HTick ==
    /\ now < MaxTimeH
    /\ now < monDue
    /\ now' = now + 1
    /\ UNCHANGED <<limVars, storeVars, healthVars, turnVars>>

NextHealth ==
    \/ HTick
    \/ MonProbe
    \/ MonSkip
    \/ \E err \in BOOLEAN : MonReturn(err)
    \/ EnvFlip
    \/ TurnLookup
    \/ TurnLookupError
    \/ TurnLookupReturn

InitHealthSpec == now = 0 /\ InitUsage /\ InitStore /\ InitHealth /\ InitTurns

SpecHealth == InitHealthSpec /\ [][NextHealth]_vars

(***************************************************************************)
(* The health flag as a shared variable: the turns read it at line 220 and *)
(* write it at line 231, the monitor goroutine writes it at lines 839 and  *)
(* 844.  No lock is taken around any of these accesses, so the assignment  *)
(* of the monitor is a step of its own during which the turns go on (one   *)
(* turn at a time here: one turn and the monitor are two goroutines; the   *)
(* clock stands still, so the monitor runs HealthCheck once).              *)
(***************************************************************************)
\* Lines 835-845: the probe has returned and the monitor is at the assignment.
MonAssignBegin(err) ==
    /\ monPc = "probe"
    /\ err \in probeSaw
    /\ monPc' = "assign"
    /\ probeSaw' = {err}
    /\ UNCHANGED <<now, limVars, storeVars, config, isKnowledgeBaseDown, lastProbe,
                   monDue, kbFails, since, agreedAt, inFlight, turnVars>>

\* Line 839 or 844: the assignment is done; HealthCheck returns and the loop sleeps.
MonAssignEnd ==
    /\ monPc = "assign"
    /\ \E err \in probeSaw :
          /\ isKnowledgeBaseDown' = HealthCheckFlag(err)
          /\ lastProbe' = IF err THEN "err" ELSE "ok"
    /\ agreedAt' = Agreed(isKnowledgeBaseDown', kbFails, agreedAt)
    /\ monPc' = "sleep"
    /\ monDue' = SleepUntil
    /\ probeSaw' = {}
    /\ UNCHANGED <<now, limVars, storeVars, config, kbFails, since, inFlight, turnVars>>

NextFlag ==
    \/ MonProbe
    \/ MonSkip
    \/ EnvFlip
    \/ \E err \in BOOLEAN : MonAssignBegin(err)
    \/ MonAssignEnd
    \/ \E t \in Turns, u \in Senders : StartPass(t, u)
    \/ \E t \in Turns, u \in Senders : StartReject(t, u)
    \/ \E t \in Turns : Limited(t)
    \/ \E t \in Turns : Add(t)
    \/ \E t \in Turns : Load(t)
    \/ \E t \in Turns : Gate(t)
    \/ \E t \in Turns : KbError(t)
    \/ \E t \in Turns : KbEmpty(t)
    \/ \E t \in Turns, es \in Results : KbHit(t, es)
    \/ \E t \in Turns, es \in Results : KbHitSendFails(t, es)
    \/ \E t \in Turns : AiFails(t)
    \/ \E t \in Turns, sent \in BOOLEAN : Answer(t, sent)
    \/ \E t \in Turns : Exit(t)

InitFlag == now = 0 /\ InitUsage /\ InitStore /\ InitHealth /\ InitTurns

SpecFlag == InitFlag /\ [][NextFlag]_vars

(***************************************************************************)
(* The store on its own: Set, Get, the cleanup goroutine and Close, with   *)
(* the clock.                                                              *)
(***************************************************************************)
SSet(k, v) ==
    /\ data' = Set(k, v)
    /\ lastSet' = [lastSet EXCEPT ![k] = [at |-> now, data |-> v]]
    /\ lastGet' = NoGet
    /\ UNCHANGED <<now, limVars, sweepDue, cleanup, closed, healthVars, turnVars>>

SGet(k) ==
    /\ lastGet' = [key |-> k, at |-> now, found |-> Get(k).found, data |-> Get(k).data]
    /\ UNCHANGED <<now, limVars, data, sweepDue, cleanup, closed, lastSet, healthVars, turnVars>>

\* Close: close(cc.cleanupCh).
Close ==
    /\ ~closed
    /\ closed' = TRUE
    /\ UNCHANGED <<now, limVars, data, sweepDue, cleanup, lastSet, lastGet, healthVars, turnVars>>

SweeperExit_keeps_running ==
    /\ cleanup = "running"
    /\ closed
    /\ UNCHANGED vars

\* case <-cc.cleanupCh: return
SweeperExit ==
    /\ cleanup = "running"
    /\ closed
    /\ cleanup' = "stopped"
    /\ UNCHANGED <<now, limVars, data, sweepDue, closed, lastSet, lastGet, healthVars, turnVars>>

STick ==
    /\ now < MaxTimeS
    /\ now' = now + 1
    /\ UNCHANGED <<limVars, storeVars, healthVars, turnVars>>

NextStore ==
    \/ STick
    \/ \E k \in Keys, v \in StoreValues : SSet(k, v)
    \/ \E k \in Keys : SGet(k)
    \/ Sweep
    \/ Close
    \/ SweeperExit

InitStoreSpec == now = 0 /\ InitUsage /\ InitStore /\ InitHealthOff /\ InitTurns

SpecStore == InitStoreSpec /\ [][NextStore]_vars

\* The same under fair scheduling: once cleanupCh is closed its case of the select
\* is ready at every iteration of the loop, and select chooses among the ready
\* cases at random, so the case is taken sooner or later.
InitStoreFair == now = 0 /\ InitUsage /\ InitStore /\ InitHealthOff /\ InitTurns

SpecStoreFair == InitStoreFair /\ [][NextStore]_vars /\ WF_vars(SweeperExit)

(***************************************************************************)
(* ConversationStore claims (under SpecStore)                              *)
(***************************************************************************)

\* C7: a Get of a key whose last Set was at time T returns that Set's value while
\* t - T <= ttl and reports the key absent once t - T > ttl, whatever Gets and
\* sweeper passes came in between.
C7_TtlExact ==
    lastGet.key # 0 =>
        LET s == lastSet[lastGet.key]
        IN  /\ (s.at >= 0 /\ lastGet.at - s.at <= expiry) =>
                  (lastGet.found /\ lastGet.data = s.data)
            /\ (s.at < 0 \/ lastGet.at - s.at > expiry) => ~lastGet.found

\* C7 witness: a key set at T was found by a Get at exactly T + ttl, after a sweeper
\* pass, and a later state has it absent (the Get at T + ttl did not extend its life).
C7_Witness ==
    /\ lastGet.key # 0
    /\ lastGet.found
    /\ lastGet.at - lastSet[lastGet.key].at = expiry
    /\ sweepDue > expiry
    /\ now > lastGet.at
    /\ ~Get(lastGet.key).found

(***************************************************************************)
(* The limiter as ProcessMessage drives it: rate check, then either        *)
(* AddUsage or TimeUntilLimitReset, each under its own lock acquisition,   *)
(* with up to MaxPending turns of a sender between the two calls.          *)
(***************************************************************************)
Pending(u) == pendingAdd[u] + pendingTUR[u]

\* A new turn may start while fewer than MaxPending turns of the sender are between
\* their two calls and the record has room for its timestamp.
MayStart(u) == Pending(u) < MaxPending /\ Len(users[u]) + pendingAdd[u] < MaxRec

\* Rate check of an unmetered sender: CanUserChat is not called (short circuit).
LCheckNoLimit(u) ==
    /\ isNoLimitUser(u)
    /\ MayStart(u)
    /\ pendingAdd' = [pendingAdd EXCEPT ![u] = @ + 1]
    /\ UNCHANGED <<now, users, pendingTUR, lastTUR, storeVars, healthVars, turnVars>>

\* Rate check of a metered sender that passes.
LCheckPass(u) ==
    /\ ~isNoLimitUser(u)
    /\ MayStart(u)
    /\ CanUserChat(u)
    /\ users' = CanUserChatStore(u)
    /\ pendingAdd' = [pendingAdd EXCEPT ![u] = @ + 1]
    /\ UNCHANGED <<now, pendingTUR, lastTUR, storeVars, healthVars, turnVars>>

\* Rate check of a metered sender that is rejected.
LCheckReject(u) ==
    /\ ~isNoLimitUser(u)
    /\ MayStart(u)
    /\ ~CanUserChat(u)
    /\ users' = CanUserChatStore(u)
    /\ pendingTUR' = [pendingTUR EXCEPT ![u] = @ + 1]
    /\ UNCHANGED <<now, pendingAdd, lastTUR, storeVars, healthVars, turnVars>>

\* Line 188 of an accepted turn.
LAddUsage(u) ==
    /\ pendingAdd[u] > 0
    /\ users' = AddUsage(u)
    /\ pendingAdd' = [pendingAdd EXCEPT ![u] = @ - 1]
    /\ UNCHANGED <<now, pendingTUR, lastTUR, storeVars, healthVars, turnVars>>

\* Line 168 of a rejected turn.
LTimeUntil(u) ==
    /\ pendingTUR[u] > 0
    /\ lastTUR' = [user |-> u, at |-> now, val |-> TimeUntilLimitReset(u)]
    /\ pendingTUR' = [pendingTUR EXCEPT ![u] = @ - 1]
    /\ UNCHANGED <<now, users, pendingAdd, storeVars, healthVars, turnVars>>

LTick ==
    /\ now < MaxTimeL
    /\ now' = now + 1
    /\ UNCHANGED <<limVars, storeVars, healthVars, turnVars>>

NextLimiter ==
    \/ LTick
    \/ \E u \in Senders : LCheckNoLimit(u)
    \/ \E u \in Senders : LCheckPass(u)
    \/ \E u \in Senders : LCheckReject(u)
    \/ \E u \in Senders : LAddUsage(u)
    \/ \E u \in Senders : LTimeUntil(u)

InitLimiter == now = 0 /\ InitUsage /\ InitStore /\ InitHealthOff /\ InitTurns

SpecLimiter == InitLimiter /\ [][NextLimiter]_vars

(***************************************************************************)
(* UsageLimiter claims (under SpecLimiter)                                 *)
(***************************************************************************)

\* The positions of the stored timestamps of u that are not stale at `now`.
NonStale(u) == {i \in DOMAIN users[u] : now - users[u][i] <= duration}

\* The oldest timestamp of u that is not stale (for a sender that has one).
OldestNonStale(u) ==
    CHOOSE t \in {users[u][i] : i \in NonStale(u)} :
        \A i \in NonStale(u) : t <= users[u][i]

\* C3: canProceed(sender) is true iff the sender is unmetered or fewer than limit of
\* its recorded timestamps have now - timestamp <= window, in every reachable
\* record at every clock value.
C3_CanProceedIff ==
    \A u \in Senders :
        canProceed(u) <=> (u \in NoLimitUsers \/ Cardinality(NonStale(u)) < limit)

\* C3 witness: a metered sender that has limit timestamps recorded, one of them
\* stale, and is allowed to proceed again.
C3_Witness ==
    \E u \in Senders \ NoLimitUsers :
        /\ Len(users[u]) = limit
        /\ Cardinality(NonStale(u)) = limit - 1
        /\ canProceed(u)

\* C4 as stated: with exactly limit timestamps inside the window canProceed is false,
\* and whenever canProceed is false timeUntilReset is strictly positive and at most
\* the window.
C4_StrictlyPositive ==
    \A u \in Senders \ NoLimitUsers :
        /\ Cardinality(NonStale(u)) = limit => ~canProceed(u)
        /\ ~canProceed(u) => TimeUntilLimitReset(u) \in 1..duration

\* C4 amended: with exactly limit timestamps inside the window canProceed is false,
\* and whenever canProceed is false timeUntilReset is between 0 and the window; it is
\* 0 exactly when the oldest non-stale timestamp is exactly one window old.
C4_NonNegative ==
    \A u \in Senders \ NoLimitUsers :
        /\ Cardinality(NonStale(u)) = limit => ~canProceed(u)
        /\ ~canProceed(u) =>
              /\ TimeUntilLimitReset(u) \in 0..duration
              /\ TimeUntilLimitReset(u) = 0 <=> now - OldestNonStale(u) = duration

\* C4 witness: a metered sender is rejected at the instant its oldest counted
\* timestamp is exactly one window old, and TimeUntilLimitReset has answered 0.
C4_Witness ==
    \E u \in Senders \ NoLimitUsers :
        /\ Cardinality(NonStale(u)) = limit
        /\ ~canProceed(u)
        /\ lastTUR = [user |-> u, at |-> now, val |-> 0]

\* C5: timeUntilReset is 0 under the limit, and otherwise the window minus the age
\* of the oldest non-stale timestamp.
C5_TimeUntilReset ==
    \A u \in Senders :
        TimeUntilLimitReset(u) =
            IF Cardinality(NonStale(u)) < limit THEN 0
            ELSE duration - (now - OldestNonStale(u))

\* C5 witness: limit messages accepted at t0, and the request at t0 + 1 was rejected
\* with timeUntilReset = window - 1.
C5_Witness ==
    \E u \in Senders \ NoLimitUsers :
        /\ Len(users[u]) = limit
        /\ \A i \in DOMAIN users[u] : users[u][i] = now - 1
        /\ lastTUR = [user |-> u, at |-> now, val |-> duration - 1]

\* C6 as stated: over any step that records nothing for a sender, the sender's
\* timeUntilReset does not grow.
C6_Monotone ==
    [][\A u \in Senders :
          users'[u] # Append(users[u], now) =>
              TimeUntilLimitReset(u)' <= TimeUntilLimitReset(u)]_vars

(***************************************************************************)
(* Claims about concurrent turns (checked under Spec).                     *)
(***************************************************************************)
\* C1 as stated: under any interleaving of the turns of a metered sender, the number
\* of its recorded timestamps that are not stale never exceeds the limit.
C1_WithinLimit ==
    \A u \in Senders \ NoLimitUsers : Cardinality(NonStale(u)) <= limit

\* The stored history of sender u holds the utterance <<role, content>>.
Stored(u, role, content) ==
    /\ u \in DOMAIN data
    /\ \E i \in DOMAIN data[u].data : data[u].data[i] = <<role, content>>

\* Turn t has finished and has stored its answer.
Answered(t) == pc[t] = "done" /\ \E i \in DOMAIN events[t] : events[t][i] = "set"

\* C2 as stated: when two turns of one sender have both finished with an answer (and
\* no time has passed, so nothing expired), the stored history holds the user and
\* assistant utterances of both turns.
C2_BothTurnsStored ==
    now = 0 =>
        \A t1 \in Turns, t2 \in Turns :
            (t1 # t2 /\ Answered(t1) /\ Answered(t2) /\ turnUser[t1] = turnUser[t2]) =>
                /\ Stored(turnUser[t1], "user", <<"q", t1>>)
                /\ \E src \in {"kb", "ai"} : Stored(turnUser[t1], "assistant", <<src, t1>>)

\* C10 as stated: no step of a turn changes isKnowledgeBaseDown.
C10_TurnsNeverWrite ==
    [][pc' # pc => isKnowledgeBaseDown' = isKnowledgeBaseDown]_vars

(***************************************************************************)
(* Claims about the health flag (checked under SpecHealth).                *)
(***************************************************************************)
\* C8: isKnowledgeBaseDown starts false (Healthy), and the step that completes a probe
\* of the monitor leaves it equal to the probe's outcome: true (Down) after a failed
\* probe, false (Healthy) after a successful one.
C8_ProbeSetsState ==
    /\ ~isKnowledgeBaseDown
    /\ [][(monPc = "probe" /\ monPc' = "sleep") =>
             /\ lastProbe' \in {"ok", "err"}
             /\ isKnowledgeBaseDown' = (lastProbe' = "err")]_vars

\* C8 witness: the monitor has just completed a failed probe, with no lookup of a turn
\* in flight, and the state is Down.
C8_Witness ==
    /\ monPc = "sleep"
    /\ monDue = now + interval
    /\ now > 0
    /\ inFlight = 0
    /\ lastProbe = "err"
    /\ isKnowledgeBaseDown

\* The flag has agreed with the probe's present outcome within d of the instant from
\* which that outcome has held.
AgreesWithin(d) ==
    KnowledgeBaseUsable =>
        IF agreedAt >= 0 THEN agreedAt - since <= d ELSE now - since <= d

NumPrompts == 3

PromptIds == 1..NumPrompts

\* callback_data of an incoming callback query: a prompt id, or 0 for a string
\* that is no prompt id.
CallbackData == {0, 1, NumPrompts}

Commands == {"/learn", "/rate", "/help", "/other"}

\* The text after the first space of a command, if there is one, cut into its
\* fields (at ":" for /learn, at the first space for /rate).
NoArg == [given |-> FALSE, parts |-> <<>>]

LearnArgs ==
    {NoArg} \cup {[given |-> TRUE, parts |-> p] :
                    p \in {<<"">>, <<"c", "s">>, <<"c", "", "i">>, <<"c", "s", "i">>}}

RateArgs ==
    {NoArg} \cup {[given |-> TRUE, parts |-> p] :
                    p \in {<<"7">>, <<"x", "Helpful">>, <<"7", "Great">>, <<"7", "Helpful">>,
                           <<"7", "not helpful">>}}

ArgsOf(name) ==
    CASE name = "/learn" -> LearnArgs
      [] name = "/rate" -> RateArgs
      [] OTHER -> {NoArg}

\* parseTrainingData: three fields, none of them empty.
parseTrainingData(parts) == Len(parts) >= 3 /\ \A i \in 1..3 : parts[i] # ""

\* strconv.Atoi on the KB number field.
Atoi(str) == str \in {"7"}

\* strings.ToLower(strings.TrimSpace(rating)).
ToLowerRating(r) ==
    CASE r = "Helpful" -> "helpful"
      [] r = "Great" -> "great"
      [] OTHER -> r

Authorized_anyone(userID) == TRUE

\* HandleCommand, line 341: only the users of NoLimitUsers may train.
Authorized(userID) == userID \in NoLimitUsers

\* HandleCommand, /learn (lines 332-374): the calls it makes, in order.
LearnCalls(userID, arg, trainOk) ==
    IF ~KnowledgeBaseActive THEN <<"send_disabled">>
    ELSE IF ~Authorized(userID) THEN <<"send_not_authorized">>
    ELSE IF ~arg.given THEN <<"send_usage">>
    ELSE IF ~parseTrainingData(arg.parts) THEN <<"send_invalid">>
    ELSE IF trainOk THEN <<"train", "send_received">>
    ELSE <<"train", "send_train_failed">>

\* HandleCommand, /rate (lines 376-414) up to the call of the client.
RateRejects(arg) ==
    IF ~arg.given THEN <<"send_usage">>
    ELSE IF Len(arg.parts) < 2 THEN <<"send_invalid">>
    ELSE IF ~Atoi(arg.parts[1]) THEN <<"send_not_integer">>
    ELSE IF ToLowerRating(arg.parts[2]) \notin {"helpful", "not helpful"} THEN <<"send_bad_rating">>
    ELSE <<>>

\* The process is alive and no ProcessMessage call is in the middle of its steps:
\* those steps use the limiter, the store and the health flag only, which no
\* handler below touches, so the handlers are not interleaved with them.
Running == ~crashed /\ Quiet

\* An update is handed to a new goroutine, the slots being used in order. The
\* handlers of /learn, /rate and unknown commands read and write nothing that
\* another handler writes, so they are taken one at a time.
UpdateArrives(k) ==
    /\ Running
    /\ upd[k].pc = "idle"
    /\ Cardinality({j \in Updates : upd[j].pc \notin {"idle", "gone"}}) < MaxInFlight
    /\ IF k = 1 THEN TRUE
       ELSE /\ upd[k - 1].pc # "idle"
            /\ upd[k - 1].kind \in {"/learn", "/rate", "/other"} => upd[k - 1].pc = "gone"

\* TelegramHandler.HandleTelegramMessage, lines 61-69: a text starting with "/".
ArriveCommand(k, name, u, a) ==
    /\ UpdateArrives(k)
    /\ upd' = [upd EXCEPT ![k] = [NoUpdate EXCEPT !.kind = name, !.pc = "cmd", !.user = u, !.arg = a]]
    /\ UNCHANGED <<now, limVars, storeVars, healthVars, pc, turnUser, messages, timeRemaining,
                   events, result, outVars, ghostVars, promptMap, writers, crashed, classVars>>

\* HandleUpdate, lines 860-867: a callback query with callback_data d.
ArriveCallback(k, u, d) ==
    /\ UpdateArrives(k)
    /\ upd' = [upd EXCEPT ![k] = [NoUpdate EXCEPT !.kind = "callback", !.pc = "cb", !.user = u,
                                                  !.arg = [given |-> TRUE, parts |-> <<d>>]]]
    /\ UNCHANGED <<now, limVars, storeVars, healthVars, pc, turnUser, messages, timeRemaining,
                   events, result, outVars, ghostVars, promptMap, writers, crashed, classVars>>

\* The handler of slot k returns after the given calls.
Returns(k, calls, ret) ==
    /\ upd' = [upd EXCEPT ![k].calls = @ \o calls, ![k].ret = ret, ![k].pc = "done"]
    /\ UNCHANGED <<now, limVars, storeVars, healthVars, pc, turnUser, messages, timeRemaining,
                   events, result, outVars, ghostVars, promptMap, writers, crashed, classVars>>

\* HandleCommand, case "/learn".
HandleLearn(k, trainOk) ==
    /\ Running
    /\ upd[k].pc = "cmd" /\ upd[k].kind = "/learn"
    /\ Returns(k, LearnCalls(upd[k].user, upd[k].arg, trainOk), "nil")

\* HandleCommand, case "/rate": a request that is refused before the client is used.
HandleRateReject(k) ==
    /\ Running
    /\ upd[k].pc = "cmd" /\ upd[k].kind = "/rate"
    /\ RateRejects(upd[k].arg) # <<>>
    /\ Returns(k, RateRejects(upd[k].arg), "nil")

\* HandleCommand, case "/rate", lines 405-415: UpdateKnowledgeEntryRating is called
\* on a.KnowledgeBaseClient.
HandleRate(k, ok) ==
    /\ Running
    /\ upd[k].pc = "cmd" /\ upd[k].kind = "/rate"
    /\ RateRejects(upd[k].arg) = <<>>
    /\ KnowledgeBaseClient = "client"
    /\ Returns(k, <<"rate", IF ok THEN "send_thanks" ELSE "send_rate_failed">>, "nil")

\* The same with no client configured: the method dereferences a nil receiver.
HandleRateNil(k) ==
    /\ Running
    /\ upd[k].pc = "cmd" /\ upd[k].kind = "/rate"
    /\ RateRejects(upd[k].arg) = <<>>
    /\ KnowledgeBaseClient = "nil"
    /\ crashed' = TRUE
    /\ upd' = [upd EXCEPT ![k].pc = "fatal"]
    /\ UNCHANGED <<now, limVars, storeVars, healthVars, pc, turnUser, messages, timeRemaining,
                   events, result, outVars, ghostVars, promptMap, writers, classVars>>

\* HandleCommand, default case.
HandleOther(k) ==
    /\ Running
    /\ upd[k].pc = "cmd" /\ upd[k].kind = "/other"
    /\ Returns(k, <<"send_unknown_command">>, "nil")

\* HandleCommand, case "/help", lines 455-457: the next assignment to promptMap
\* begins. If another goroutine is inside an assignment the runtime may stop the
\* process.
HelpWriteBegin(k, fatal) ==
    /\ Running
    /\ upd[k].pc = "cmd" /\ upd[k].kind = "/help"
    /\ Len(upd[k].calls) < NumPrompts
    /\ fatal => writers > 0
    /\ IF fatal
       THEN /\ crashed' = TRUE
            /\ upd' = [upd EXCEPT ![k].pc = "fatal"]
            /\ UNCHANGED writers
       ELSE /\ writers' = writers + 1
            /\ upd' = [upd EXCEPT ![k].pc = "writing"]
            /\ UNCHANGED crashed
    /\ UNCHANGED <<now, limVars, storeVars, healthVars, pc, turnUser, messages, timeRemaining,
                   events, result, outVars, ghostVars, promptMap, classVars>>

\* The assignment is complete.
HelpWriteEnd(k) ==
    /\ Running
    /\ upd[k].pc = "writing"
    /\ promptMap' = promptMap \cup {Len(upd[k].calls) + 1}
    /\ writers' = writers - 1
    /\ upd' = [upd EXCEPT ![k].pc = "cmd", ![k].calls = Append(@, "register")]
    /\ UNCHANGED <<now, limVars, storeVars, healthVars, pc, turnUser, messages, timeRemaining,
                   events, result, outVars, ghostVars, crashed, classVars>>

\* Lines 459-484: the help text is sent with its keyboard.
HelpSend(k) ==
    /\ Running
    /\ upd[k].pc = "cmd" /\ upd[k].kind = "/help"
    /\ Len(upd[k].calls) = NumPrompts
    /\ Returns(k, <<"send_help">>, "nil")

\* HandleCallbackQuery, lines 515-526: the read of promptMap. A read that overlaps
\* an assignment may stop the process, or see the map without the key being
\* assigned.
CallbackLookup(k, fatal) ==
    /\ Running
    /\ upd[k].pc = "cb"
    /\ fatal => writers > 0
    /\ IF fatal
       THEN /\ crashed' = TRUE
            /\ upd' = [upd EXCEPT ![k].pc = "fatal"]
       ELSE /\ UNCHANGED crashed
            /\ IF upd[k].arg.parts[1] \in promptMap
               THEN upd' = [upd EXCEPT ![k].pc = "process", ![k].calls = Append(@, "ack")]
               ELSE upd' = [upd EXCEPT ![k].pc = "done", ![k].ret = "error",
                                       ![k].calls = Append(@, "send_not_recognized")]
    /\ UNCHANGED <<now, limVars, storeVars, healthVars, pc, turnUser, messages, timeRemaining,
                   events, result, outVars, ghostVars, promptMap, writers, classVars>>

\* HandleCallbackQuery, line 535: ProcessMessage is called with the prompt (the
\* calls of ProcessMessage are taken one after the other).
CallbackCall(k) ==
    /\ Running
    /\ upd[k].pc = "process"
    /\ \E t \in Turns : pc[t] = "idle"
    /\ \A j \in Updates : upd[j].pc # "called"
    /\ upd' = [upd EXCEPT ![k].pc = "called"]
    /\ UNCHANGED <<now, limVars, storeVars, healthVars, pc, turnUser, messages, timeRemaining,
                   events, result, outVars, ghostVars, promptMap, writers, crashed, classVars>>

\* ProcessMessage, lines 159-165, for the prompt of the callback.
CallbackPass(k, t) ==
    /\ ~crashed
    /\ upd[k].pc = "called"
    /\ StartPass(t, upd[k].user)

CallbackReject_passes(k, t) ==
    /\ ~crashed
    /\ upd[k].pc = "called"
    /\ Quiet
    /\ Arrives(t)
    /\ ~canProceed(upd[k].user)
    /\ users' = CanUserChatStore(upd[k].user)
    /\ turnUser' = [turnUser EXCEPT ![t] = upd[k].user]
    /\ pc' = [pc EXCEPT ![t] = "add"]
    /\ afterError' = [afterError EXCEPT ![t] = pendingNext]
    /\ pendingNext' = "none"
    /\ UNCHANGED <<now, pendingAdd, pendingTUR, lastTUR, storeVars, healthVars,
                   messages, timeRemaining, events, result, outVars, dispVars>>

CallbackReject(k, t) ==
    /\ ~crashed
    /\ upd[k].pc = "called"
    /\ StartReject(t, upd[k].user)

\* Lines 535-541: ProcessMessage has returned; its error, if any, is returned.
CallbackReturn(k, t) ==
    /\ ~crashed
    /\ upd[k].pc = "called"
    /\ ExitTurn(t)
    /\ upd' = [upd EXCEPT ![k].calls = Append(@, "ProcessMessage"), ![k].pc = "done",
                          ![k].ret = IF result[t] = "nil" THEN "nil" ELSE "error"]
    /\ UNCHANGED <<promptMap, writers, crashed, classVars>>

\* HandleUpdate returns and the goroutine ends.
UpdateExit(k) ==
    /\ Running
    /\ upd[k].pc = "done"
    /\ upd' = [upd EXCEPT ![k] = [NoUpdate EXCEPT !.pc = "gone"]]
    /\ UNCHANGED <<now, limVars, storeVars, healthVars, pc, turnUser, messages, timeRemaining,
                   events, result, outVars, ghostVars, promptMap, writers, crashed, classVars>>

NextDispatch ==
    \/ \E k \in Updates, name \in Commands, u \in Senders :
          \E a \in ArgsOf(name) : ArriveCommand(k, name, u, a)
    \/ \E k \in Updates, u \in Senders, d \in CallbackData : ArriveCallback(k, u, d)
    \/ \E k \in Updates, trainOk \in BOOLEAN : HandleLearn(k, trainOk)
    \/ \E k \in Updates : HandleRateReject(k)
    \/ \E k \in Updates, ok \in BOOLEAN : HandleRate(k, ok)
    \/ \E k \in Updates : HandleRateNil(k)
    \/ \E k \in Updates : HandleOther(k)
    \/ \E k \in Updates, fatal \in BOOLEAN : HelpWriteBegin(k, fatal)
    \/ \E k \in Updates : HelpWriteEnd(k)
    \/ \E k \in Updates : HelpSend(k)
    \/ \E k \in Updates, fatal \in BOOLEAN : CallbackLookup(k, fatal)
    \/ \E k \in Updates : CallbackCall(k)
    \/ \E k \in Updates, t \in Turns : CallbackPass(k, t)
    \/ \E k \in Updates, t \in Turns : CallbackReject(k, t)
    \/ \E k \in Updates, t \in Turns : CallbackReturn(k, t)
    \/ \E k \in Updates : UpdateExit(k)
    \/ \E t \in Turns : ~crashed /\ Limited(t)
    \/ \E t \in Turns : ~crashed /\ Add(t)
    \/ \E t \in Turns : ~crashed /\ Load(t)
    \/ \E t \in Turns : ~crashed /\ Gate(t)
    \/ \E t \in Turns : ~crashed /\ KbError(t)
    \/ \E t \in Turns : ~crashed /\ KbEmpty(t)
    \/ \E t \in Turns, es \in Results : ~crashed /\ KbHit(t, es)
    \/ \E t \in Turns, es \in Results : ~crashed /\ KbHitSendFails(t, es)
    \/ \E t \in Turns : ~crashed /\ AiFails(t)
    \/ \E t \in Turns, sent \in BOOLEAN : ~crashed /\ Answer(t, sent)

InitDispatch == now = 0 /\ InitUsage /\ InitStore /\ InitHealth /\ InitTurns

SpecDispatch == InitDispatch /\ [][NextDispatch]_vars

(***************************************************************************)
(* The commands on their own.                                              *)
(***************************************************************************)
NextCommand ==
    \/ \E k \in Updates, name \in Commands, u \in Senders :
          \E a \in ArgsOf(name) : ArriveCommand(k, name, u, a)
    \/ \E k \in Updates, trainOk \in BOOLEAN : HandleLearn(k, trainOk)
    \/ \E k \in Updates : HandleRateReject(k)
    \/ \E k \in Updates, ok \in BOOLEAN : HandleRate(k, ok)
    \/ \E k \in Updates : HandleRateNil(k)
    \/ \E k \in Updates : HandleOther(k)
    \/ \E k \in Updates, fatal \in BOOLEAN : HelpWriteBegin(k, fatal)
    \/ \E k \in Updates : HelpWriteEnd(k)
    \/ \E k \in Updates : HelpSend(k)
    \/ \E k \in Updates : UpdateExit(k)

InitCommand == now = 0 /\ InitUsage /\ InitStore /\ InitHealth /\ InitTurns

SpecCommand == InitCommand /\ [][NextCommand]_vars

(***************************************************************************)
(* telegram.TelegramHandler.HandleTelegramMessage: what is done with one   *)
(* message. A text is a sequence of one-byte characters; entity offsets    *)
(* and lengths index bytes, as the slice expression of the handler does.   *)
(***************************************************************************)
\* Longest text.
MaxText == 3

Chars == {"@", "B", "b", " "}

\* BOT_USERNAME.
BotUsername == <<"B">>

\* The texts: a "/" may open a text (a command).
Texts ==
    UNION {{t \in [1..n -> Chars \cup {"/"}] : \A i \in 2..n : t[i] # "/"} : n \in 0..MaxText}

\* Marked spans: mentions of two or three bytes anywhere, and one of another type.
Entities ==
    {[Type |-> "mention", Offset |-> o, Length |-> l] : o \in 0..MaxText, l \in {2, 3}}
        \cup {[Type |-> "bold", Offset |-> 0, Length |-> 2]}

\* A message carries no, one or two spans.
EntityLists ==
    {<<>>} \cup {<<e>> : e \in Entities} \cup {<<e, f>> : e \in Entities, f \in Entities}

\* ReplyToMessage: absent, or a message from a person, from this bot, from another
\* bot (From.IsBot is true for both bots).
Replies == {"none", "person", "this_bot", "other_bot"}

IsBot(from) == from \in {"this_bot", "other_bot"}

Messages ==
    [chatID : {0, 7}, chatType : {"private", "group"}, text : Texts, entities : EntityLists,
     reply : Replies]

\* strings.HasPrefix(text, "/").
HasPrefix(text) == Len(text) > 0 /\ text[1] = "/"

\* strings.ToLower.
ToLower(str) == [i \in DOMAIN str |-> IF str[i] = "B" THEN "b" ELSE str[i]]

isTaggedMention_case_sensitive(mention, botUsername) == mention = <<"@">> \o botUsername

\* isTaggedMention, lines 116-118.
isTaggedMention(mention, botUsername) == ToLower(mention) = <<"@">> \o ToLower(botUsername)

\* strings.Index: the first position (from 1) at which sub occurs in text, 0 if none.
RECURSIVE IndexFrom(_, _, _)
IndexFrom(text, sub, p) ==
    IF p + Len(sub) - 1 > Len(text) THEN 0
    ELSE IF SubSeq(text, p, p + Len(sub) - 1) = sub THEN p
    ELSE IndexFrom(text, sub, p + 1)

\* strings.Replace(text, old, "", 1).
ReplaceFirst(text, old) ==
    LET p == IndexFrom(text, old, 1)
    IN  IF p = 0 THEN text
        ELSE SubSeq(text, 1, p - 1) \o SubSeq(text, p + Len(old), Len(text))

\* strings.TrimSpace.
RECURSIVE TrimLeft(_)
TrimLeft(str) == IF str # <<>> /\ str[1] = " " THEN TrimLeft(Tail(str)) ELSE str

RECURSIVE TrimRight(_)
TrimRight(str) ==
    IF str # <<>> /\ str[Len(str)] = " " THEN TrimRight(SubSeq(str, 1, Len(str) - 1)) ELSE str

TrimSpace(str) == TrimRight(TrimLeft(str))

removeMention_untrimmed(text, mention) == ReplaceFirst(text, mention)

\* removeMention, lines 121-123.
removeMention(text, mention) == TrimSpace(ReplaceFirst(text, mention))

\* The loop of lines 79-96 if it ended at a span that exceeds the text.
RECURSIVE TaggedFrom_stops(_, _)
TaggedFrom_stops(m, i) ==
    IF i > Len(m.entities) THEN <<>>
    ELSE LET entity == m.entities[i]
         IN  IF entity.Type # "mention" THEN TaggedFrom_stops(m, i + 1)
             ELSE IF entity.Offset + entity.Length > Len(m.text) THEN <<>>
             ELSE LET mention == SubSeq(m.text, entity.Offset + 1, entity.Offset + entity.Length)
                  IN  IF isTaggedMention(mention, BotUsername) THEN mention
                      ELSE TaggedFrom_stops(m, i + 1)

\* Lines 79-96: the loop over the entities from the i-th on; the mention that
\* tagged the bot, or the empty string if the loop ends without one.
RECURSIVE TaggedFrom(_, _)
TaggedFrom(m, i) ==
    IF i > Len(m.entities) THEN <<>>
    ELSE LET entity == m.entities[i]
         IN  IF entity.Type # "mention" THEN TaggedFrom(m, i + 1)
             ELSE IF entity.Offset + entity.Length > Len(m.text) THEN TaggedFrom(m, i + 1)
             ELSE LET mention == SubSeq(m.text, entity.Offset + 1, entity.Offset + entity.Length)
                  IN  IF isTaggedMention(mention, BotUsername) THEN mention
                      ELSE TaggedFrom(m, i + 1)

\* The position (from 1) of the first space of text, 0 if it has none.
FirstSpace(text) == IndexFrom(text, <<" ">>, 1)

SplitN_every_space(text) ==
    LET p == FirstSpace(text)
        rest == SubSeq(text, p + 1, Len(text))
        q == FirstSpace(rest)
    IN  IF p = 0 THEN <<text>>
        ELSE <<SubSeq(text, 1, p - 1), IF q = 0 THEN rest ELSE SubSeq(rest, 1, q - 1)>>

\* strings.SplitN(message.Text, " ", 2) of HandleCommand: the text itself if it has
\* no space, else what precedes the first space and what follows it.
SplitN(text) ==
    LET p == FirstSpace(text)
    IN  IF p = 0 THEN <<text>>
        ELSE <<SubSeq(text, 1, p - 1), SubSeq(text, p + 1, Len(text))>>

Eligible_group_rule(isTagged, isReplyToBot, chatType) == isTagged \/ isReplyToBot

\* Line 99, negated: the message is answered if it tags the bot, replies to a bot
\* or was sent in a private chat.
Eligible(isTagged, isReplyToBot, chatType) ==
    ~(~isTagged /\ ~isReplyToBot /\ chatType # "private")

\* Lines 45-113: an invalid message and an ineligible one are dropped, a text
\* starting with "/" goes to HandleCommand (which splits it), everything else to
\* ProcessMessage with userQuestion.
HandleTelegramMessage(m) ==
    IF m.chatID = 0 \/ m.text = <<>> THEN [kind |-> "Ignore", text |-> <<>>]
    ELSE IF HasPrefix(m.text)
         THEN [kind |-> "Command", text |-> m.text, commandParts |-> SplitN(m.text)]
    ELSE LET mention == TaggedFrom(m, 1)
             isTagged == mention # <<>>
             isReply == m.reply # "none"
             userQuestion == IF isTagged THEN removeMention(m.text, mention) ELSE m.text
         IN  IF ~Eligible(isTagged, isReply /\ IsBot(m.reply), m.chatType)
             THEN [kind |-> "Ignore", text |-> <<>>]
             ELSE [kind |-> "DirectQuestion", text |-> userQuestion]

\* The message is handled.
Classify ==
    /\ intent = NoIntent
    /\ intent' = HandleTelegramMessage(msg)
    /\ UNCHANGED <<now, limVars, storeVars, healthVars, pc, turnUser, messages, timeRemaining,
                   events, result, outVars, ghostVars, promptMap, writers, crashed, upd, msg,
                   composeVars>>

NextClassify == Classify

InitClassify ==
    /\ now = 0 /\ InitUsage /\ InitStore /\ InitHealthOff /\ InitProcess /\ InitRegistry
    /\ InitComposer
    /\ msg \in Messages
    /\ intent = NoIntent

SpecClassify == InitClassify /\ [][NextClassify]_vars

(***************************************************************************)
(* App.HandleUpdate for updates that carry a message, one update at a      *)
(* time: the message is classified by HandleTelegramMessage and handed to  *)
(* HandleCommand or to ProcessMessage, or dropped.                         *)
(***************************************************************************)
\* A message with no spans.
Plain(chatID, chatType, text, replyTo) ==
    [chatID |-> chatID, chatType |-> chatType, text |-> text, entities |-> <<>>,
     reply |-> replyTo]

\* The messages received: without a chat id, without a text, group messages that
\* reply to nobody and to a person, a reply to the bot, a private message, a group
\* message that mentions the bot, and texts starting with "/".
RouteMessages ==
    {Plain(0, "private", <<"b">>, "none"),
     Plain(7, "private", <<>>, "none"),
     Plain(7, "group", <<"b">>, "none"),
     Plain(7, "group", <<"b">>, "person"),
     Plain(7, "group", <<"b">>, "this_bot"),
     Plain(7, "private", <<"b">>, "none"),
     [chatID |-> 7, chatType |-> "group", text |-> <<"@", "B">>,
      entities |-> <<[Type |-> "mention", Offset |-> 0, Length |-> 2]>>, reply |-> "none"],
     Plain(7, "group", <<"/">>, "none"),
     Plain(0, "group", <<"/">>, "none")}

IgnoreResponse_legacy == "No response needed"

\* part_003, lines 48 and 101: what HandleTelegramMessage returns for a message it
\* drops.
IgnoreResponse == ""

\* HandleUpdate, lines 875-878: the response is sent if it is not empty.
ResponseCalls(response) == IF response # "" THEN <<"send_response">> ELSE <<>>

HandlerOf_all_questions(kind) == IF kind = "Ignore" THEN "done" ELSE "called"

\* part_003, lines 46-49, 61-69, 99-107: where the handling of a classified
\* message continues: in HandleCommand, in ProcessMessage, or nowhere.
HandlerOf(kind) ==
    CASE kind = "Command" -> "cmd"
      [] kind = "DirectQuestion" -> "called"
      [] OTHER -> "done"

\* go botApp.HandleUpdate(&update): message m of sender u arrives when the update
\* before it has been handled (a question needs a free turn of the model).
MessageArrives(k, m, u) ==
    /\ Running
    /\ upd[k].pc = "idle"
    /\ IF k = 1 THEN TRUE ELSE upd[k - 1].pc = "gone"
    /\ msg = NoMessage
    /\ HandleTelegramMessage(m).kind = "DirectQuestion" => \E t \in Turns : pc[t] = "idle"
    /\ upd' = [upd EXCEPT ![k] = [NoUpdate EXCEPT !.kind = "message", !.pc = "msg", !.user = u]]
    /\ msg' = m
    /\ intent' = NoIntent
    /\ UNCHANGED <<now, limVars, storeVars, healthVars, pc, turnUser, messages, timeRemaining,
                   events, result, outVars, ghostVars, promptMap, writers, crashed, composeVars>>

\* HandleTelegramMessage up to the call of HandleCommand or ProcessMessage, or to
\* its return for a dropped message, after which HandleUpdate sends the response
\* if there is one. The text of a command stands for command name with argument a.
ClassifyMessage(k, name, a) ==
    /\ Running
    /\ upd[k].pc = "msg"
    /\ intent' = HandleTelegramMessage(msg)
    /\ intent'.kind # "Command" => name = "/other" /\ a = NoArg
    /\ upd' = [upd EXCEPT ![k].kind = IF intent'.kind = "Command" THEN name ELSE intent'.kind,
                          ![k].arg = a,
                          ![k].pc = HandlerOf(intent'.kind),
                          ![k].calls = IF intent'.kind = "Ignore"
                                       THEN ResponseCalls(IgnoreResponse) ELSE <<>>]
    /\ UNCHANGED <<now, limVars, storeVars, healthVars, pc, turnUser, messages, timeRemaining,
                   events, result, outVars, ghostVars, promptMap, writers, crashed, msg,
                   composeVars>>

\* part_003, line 107: ProcessMessage is called; lines 159-165, its rate check.
QuestionPass(k, t) ==
    /\ ~crashed
    /\ upd[k].pc = "called"
    /\ StartPass(t, upd[k].user)

QuestionReject(k, t) ==
    /\ ~crashed
    /\ upd[k].pc = "called"
    /\ StartReject(t, upd[k].user)

\* part_003, lines 107-112: ProcessMessage has returned; its error is logged and
\* the empty response returned.
QuestionReturn(k, t) ==
    /\ ~crashed
    /\ upd[k].pc = "called"
    /\ ExitTurn(t)
    /\ upd' = [upd EXCEPT ![k].calls = Append(@, "ProcessMessage") \o ResponseCalls(""),
                          ![k].pc = "done", ![k].ret = "nil"]
    /\ UNCHANGED <<promptMap, writers, crashed, classVars>>

\* HandleUpdate returns and the goroutine ends.
MessageExit(k) ==
    /\ Running
    /\ upd[k].pc = "done"
    /\ upd' = [upd EXCEPT ![k] = [NoUpdate EXCEPT !.pc = "gone"]]
    /\ msg' = NoMessage
    /\ intent' = NoIntent
    /\ UNCHANGED <<now, limVars, storeVars, healthVars, pc, turnUser, messages, timeRemaining,
                   events, result, outVars, ghostVars, promptMap, writers, crashed, composeVars>>

NextRoute ==
    \/ \E k \in Updates, m \in RouteMessages, u \in Senders : MessageArrives(k, m, u)
    \/ \E k \in Updates, name \in Commands : \E a \in ArgsOf(name) : ClassifyMessage(k, name, a)
    \/ \E k \in Updates, trainOk \in BOOLEAN : HandleLearn(k, trainOk)
    \/ \E k \in Updates : HandleRateReject(k)
    \/ \E k \in Updates, ok \in BOOLEAN : HandleRate(k, ok)
    \/ \E k \in Updates : HandleRateNil(k)
    \/ \E k \in Updates : HandleOther(k)
    \/ \E k \in Updates : HelpWriteBegin(k, FALSE)
    \/ \E k \in Updates : HelpWriteEnd(k)
    \/ \E k \in Updates : HelpSend(k)
    \/ \E k \in Updates, t \in Turns : QuestionPass(k, t)
    \/ \E k \in Updates, t \in Turns : QuestionReject(k, t)
    \/ \E k \in Updates, t \in Turns : QuestionReturn(k, t)
    \/ \E k \in Updates : MessageExit(k)
    \/ \E t \in Turns : Limited(t)
    \/ \E t \in Turns : Add(t)
    \/ \E t \in Turns : Load(t)
    \/ \E t \in Turns : Gate(t)
    \/ \E t \in Turns : KbError(t)
    \/ \E t \in Turns : KbEmpty(t)
    \/ \E t \in Turns, es \in Results : KbHit(t, es)
    \/ \E t \in Turns, es \in Results : KbHitSendFails(t, es)
    \/ \E t \in Turns : AiFails(t)
    \/ \E t \in Turns, sent \in BOOLEAN : Answer(t, sent)

InitRoute == now = 0 /\ InitUsage /\ InitStore /\ InitHealth /\ InitTurns

SpecRoute == InitRoute /\ [][NextRoute]_vars

(***************************************************************************)
(* /help commands and callback queries, one update at a time.              *)
(***************************************************************************)
\* No other update is being handled.
Alone(k) == \A j \in Updates \ {k} : upd[j].pc \in {"idle", "gone"}

HelpArrives(k, u) == Alone(k) /\ ArriveCommand(k, "/help", u, NoArg)

CallbackArrives(k, u, d) == Alone(k) /\ ArriveCallback(k, u, d)

NextCallback ==
    \/ \E k \in Updates, u \in Senders : HelpArrives(k, u)
    \/ \E k \in Updates, u \in Senders, d \in CallbackData : CallbackArrives(k, u, d)
    \/ \E k \in Updates : HelpWriteBegin(k, FALSE)
    \/ \E k \in Updates : HelpWriteEnd(k)
    \/ \E k \in Updates : HelpSend(k)
    \/ \E k \in Updates : CallbackLookup(k, FALSE)
    \/ \E k \in Updates : CallbackCall(k)
    \/ \E k \in Updates, t \in Turns : CallbackPass(k, t)
    \/ \E k \in Updates, t \in Turns : CallbackReject(k, t)
    \/ \E k \in Updates, t \in Turns : CallbackReturn(k, t)
    \/ \E k \in Updates : UpdateExit(k)
    \/ \E t \in Turns : Limited(t)
    \/ \E t \in Turns : Add(t)
    \/ \E t \in Turns : Load(t)
    \/ \E t \in Turns : Gate(t)
    \/ \E t \in Turns : KbError(t)
    \/ \E t \in Turns : KbEmpty(t)
    \/ \E t \in Turns, es \in Results : KbHit(t, es)
    \/ \E t \in Turns, es \in Results : KbHitSendFails(t, es)
    \/ \E t \in Turns : AiFails(t)
    \/ \E t \in Turns, sent \in BOOLEAN : Answer(t, sent)

InitCallback == now = 0 /\ InitUsage /\ InitStore /\ InitHealth /\ InitTurns

SpecCallback == InitCallback /\ [][NextCallback]_vars

(***************************************************************************)
(* The text of an answer, from the client that produced it to SendMessage. *)
(* A text is represented by its length in bytes (len).                     *)
(***************************************************************************)
\* How far the lengths drawn lie from the lengths at which the result changes.
MaxSlack == 2

\* Telegram's maximal message length, as QueryOpenAIWithMessages uses it.
ChannelLimit == 4096

\* len("\n\nNeed Help? Type /help to see how to use this bot effectively.")
HelpLinkLen == 63

\* The fixed bytes of "\n\n**KB Number:** %d\n**Category:** %s\n**Taxonomy:** %s".
TrailerLen == 47

\* The fixed bytes of "- **%s**: %s\n".
KnowledgeResponseLen == 9

\* The lengths drawn for the content OpenAI returns and for the Answer of a
\* knowledge entry: around the limit, and around the limit less the help link.
ContentLengths ==
    {0} \cup ((ChannelLimit - HelpLinkLen - MaxSlack)..(ChannelLimit - HelpLinkLen + MaxSlack))
        \cup ((ChannelLimit - MaxSlack)..(ChannelLimit + MaxSlack))

\* What a turn can obtain: the content of OpenAI's first choice, or the first
\* entry of the knowledge base with its number, template, category, subcategory.
Responses ==
    [src : {"ai"}, content : ContentLengths]
        \cup [src : {"kb"}, QuestionTemplate : 0..MaxSlack, Answer : ContentLengths,
               KBNumber : {7, 12}, Category : {0, MaxSlack}, SubCategory : {0, MaxSlack}]

\* The number of bytes %d prints for an unsigned number.
RECURSIVE Digits(_)
Digits(n) == IF n < 10 THEN 1 ELSE 1 + Digits(n \div 10)

\* utils.SummarizeToLength: text[:maxLength] when the text is longer.
SummarizeToLength(text, maxLength) == IF text <= maxLength THEN text ELSE maxLength

\* QueryOpenAIWithMessages, lines 85-91: the content it returns.
QueryOpenAIWithMessages(content) ==
    IF content > ChannelLimit THEN SummarizeToLength(content, ChannelLimit) ELSE content

\* ProcessMessage, line 275: knowledgeResponse.
KnowledgeResponse(r) == KnowledgeResponseLen + r.QuestionTemplate + r.Answer

\* PrepareFinalMessage: the trailer of a knowledge entry (hasEntry: kbEntry != nil)
\* and the help link are appended; nothing is cut.
PrepareFinalMessage(text, hasEntry, r) ==
    text + (IF hasEntry THEN TrailerLen + Digits(r.KBNumber) + r.Category + r.SubCategory
            ELSE 0)
         + HelpLinkLen

\* Lines 239-240, 276-282, 306-307 of ProcessMessage: the text handed to SendMessage.
Compose ==
    /\ finalMessage = -1
    /\ finalMessage' =
          IF responseText.src = "ai"
          THEN PrepareFinalMessage(QueryOpenAIWithMessages(responseText.content), FALSE,
                                   responseText)
          ELSE PrepareFinalMessage(KnowledgeResponse(responseText), TRUE, responseText)
    /\ UNCHANGED <<now, limVars, storeVars, healthVars, pc, turnUser, messages, timeRemaining,
                   events, result, outVars, ghostVars, promptMap, writers, crashed, upd, msg,
                   intent, responseText, logVars>>

NextCompose == Compose

InitCompose ==
    /\ now = 0 /\ InitUsage /\ InitStore /\ InitHealthOff /\ InitProcess /\ InitRegistry
    /\ msg = NoMessage
    /\ intent = NoIntent
    /\ responseText \in Responses
    /\ finalMessage = -1
    /\ InitLog

SpecCompose == InitCompose /\ [][NextCompose]_vars

(***************************************************************************)
(* logToS3: the interaction log, one CSV object that every call downloads, *)
(* extends by its record and uploads again, under logMutex.                *)
(***************************************************************************)
otherVars == <<now, limVars, storeVars, healthVars, pc, turnUser, messages, timeRemaining,
               events, result, outVars, ghostVars, promptMap, writers, crashed, upd, msg,
               intent, responseText, finalMessage>>

\* Lines 782-794: the header row.
Headers == "headers"

\* Lines 740-741: the call takes logMutex (held until it returns) and builds its
\* record.
LogLock(c) ==
    /\ logger[c].pc = "idle"
    /\ \A d \in Loggers : logger[d].pc = "idle"
    /\ logCalls < MaxLogCalls
    /\ logCalls' = logCalls + 1
    /\ logger' = [logger EXCEPT ![c] = [pc |-> "locked", record |-> logCalls + 1,
                                        existingData |-> <<>>]]
    /\ UNCHANGED <<s3Object, uploaded, otherVars>>

\* Lines 760-779: existingData after the download.  It stays empty when GetObject
\* returns an error, when the body cannot be read or is empty, and when the CSV
\* does not parse.
ExistingData(read) == IF read THEN s3Object ELSE <<>>

\* Lines 781-797: the header row is added to an empty existingData, then the record.
WithRecord(existingData, record) ==
    Append(IF Len(existingData) = 0 THEN <<Headers>> ELSE existingData, record)

\* Lines 760-797: the download (read: it succeeded and the rows were parsed) and
\* the rows to be uploaded.
LogGet(c, read) ==
    /\ logger[c].pc = "locked"
    /\ logger' = [logger EXCEPT ![c].pc = "got",
                                ![c].existingData =
                                    WithRecord(ExistingData(read), logger[c].record)]
    /\ UNCHANGED <<s3Object, uploaded, logCalls, otherVars>>

\* Lines 799-818: the upload (ok: PutObject succeeded) replaces the object; the call
\* returns and releases logMutex.
LogPut(c, ok) ==
    /\ logger[c].pc = "got"
    /\ s3Object' = IF ok THEN logger[c].existingData ELSE s3Object
    /\ uploaded' = IF ok THEN Append(uploaded, logger[c].record) ELSE uploaded
    /\ logger' = [logger EXCEPT ![c] = NoCall]
    /\ UNCHANGED <<logCalls, otherVars>>

NextLog ==
    \/ \E c \in Loggers : LogLock(c)
    \/ \E c \in Loggers, read \in BOOLEAN : LogGet(c, read)
    \/ \E c \in Loggers, ok \in BOOLEAN : LogPut(c, ok)

InitLogSpec == now = 0 /\ InitUsage /\ InitStore /\ InitHealthOff /\ InitTurns

SpecLog == InitLogSpec /\ [][NextLog]_vars

-----------------------------------------------------------------------------
\* Claims about the calls one turn makes (SpecTurn).

HasEvent(t, e) == \E i \in DOMAIN events[t] : events[t][i] = e

Count(t, e) == Cardinality({i \in DOMAIN events[t] : events[t][i] = e})

\* The turn has passed the rate check and decided where its answer comes from.
Decided(t) == pc[t] = "ai" \/ (pc[t] = "done" /\ result[t] # "rate_limited")

\* The turn that started next after a failed lookup, for the given histories of
\* the monitor between the failure and the turn's reading of the flag.
SkipsLookupAfter(hist) ==
    \A t \in Turns :
        afterError[t] \in hist =>
            /\ ~HasEvent(t, "kb")
            /\ pc[t] # "kb"
            /\ Decided(t) => HasEvent(t, "ai")

\* C11 as stated: after a lookup error the next turn to start makes no lookup call
\* and asks the generative client, whatever the monitor's probes did in between.
C11_NextTurnSkips == SkipsLookupAfter({"error", "recovered"})

\* C11, amended: after a lookup error the next turn to start makes no lookup call
\* and asks the generative client, provided no probe of the monitor has succeeded
\* between the failed lookup and the moment the turn reads the flag.
C11_NextTurnSkipsUnlessProbed == SkipsLookupAfter({"error"})

C11_Witness ==
    \E t \in Turns :
        /\ afterError[t] = "error"
        /\ pc[t] = "done"
        /\ result[t] = "nil"
        /\ reply[t].src = "ai"
        /\ KnowledgeBaseUsable

\* C12: in a turn whose lookup returned at least one result, the answer sent is
\* built from the first result only and the generative client is not called.
C12_TopResultOnly ==
    \A t \in Turns :
        entries[t] # <<>> =>
            /\ reply[t] = [src |-> "kb", body |-> entries[t][1]]
            /\ Count(t, "kb") = 1
            /\ ~HasEvent(t, "ai")

C12_Witness ==
    \E t \in Turns :
        /\ pc[t] = "done"
        /\ result[t] = "nil"
        /\ entries[t] = <<"e2", "e1">>
        /\ reply[t] = [src |-> "kb", body |-> "e2"]
        /\ HasEvent(t, "send")

\* The turn called the lookup client and the call failed or found nothing.
FellThrough(t) == HasEvent(t, "kb") /\ entries[t] = <<>> /\ pc[t] \in {"ai", "done"}

\* C13: a turn whose lookup fails or returns no result calls the lookup client
\* exactly once and then the generative client exactly once, with the context
\* accumulated so far (the history, then the user's message of this turn).
C13_FallThroughOnce ==
    \A t \in Turns :
        FellThrough(t) =>
            /\ Count(t, "kb") = 1
            /\ Count(t, "ai") = 1
            /\ \E i, j \in DOMAIN events[t] :
                  i < j /\ events[t][i] = "kb" /\ events[t][j] = "ai"
            /\ pc[t] = "ai" =>
                  /\ messages[t][1] = SystemPrompt
                  /\ messages[t][Len(messages[t])] = [Role |-> "user", Content |-> <<"q", t>>]

C13_Witness ==
    \E t \in Turns :
        /\ FellThrough(t)
        /\ pc[t] = "done"
        /\ result[t] = "nil"
        /\ isKnowledgeBaseDown
        /\ reply[t].src = "ai"
        /\ Len(messages[t]) > 3

\* C14: when the generative call of a turn fails, the turn sends no message, no
\* step of the turn has changed the store (the user's message is not persisted),
\* the error is returned, and nothing is logged as rate limited.
C14_GenerativeFailure ==
    [][\A t \in Turns :
          /\ (pc'[t] # pc[t] /\ pc'[t] # "gone" /\ Count(t, "set")' = Count(t, "set")) =>
                data' = data
          /\ (result[t] = "none" /\ result'[t] = "error_ai") =>
                /\ pc[t] = "ai" /\ pc'[t] = "done"
                /\ Count(t, "ai")' = 1
                /\ ~HasEvent(t, "set")'
                /\ ~HasEvent(t, "send")'
                /\ ~HasEvent(t, "send_limit")'
                /\ ~HasEvent(t, "log")'
                /\ ~HasEvent(t, "log_limited")'
                /\ reply'[t] = NoReply
                /\ ~Stored(turnUser[t], "user", <<"q", t>>)']_vars

C14_Witness ==
    \E t \in Turns :
        /\ pc[t] = "done"
        /\ result[t] = "error_ai"
        /\ FellThrough(t)
        /\ turnUser[t] \in DOMAIN data
        /\ Len(messages[t]) > 2

\* Turn t was refused by the rate check and has returned.
RateLimited(t) == pc[t] = "done" /\ result[t] = "rate_limited"

\* What a refused turn has done when it returns.
RateLimitedOutcome(t) ==
    /\ ~isNoLimitUser(turnUser[t])
    /\ events[t] = <<"send_limit", "log_limited">>
    /\ limitMsg[t].seconds \in 0..59
    /\ limitMsg[t].minutes >= 0
    /\ limitMsg[t].minutes * 60 + limitMsg[t].seconds = timeRemaining[t] * TickSeconds
    /\ reply[t] = NoReply
    /\ entries[t] = <<>>

\* The timestamps of sender u after the step are among those before it.
NoNewTimestamp(u) ==
    /\ Len(users'[u]) <= Len(users[u])
    /\ \A i \in DOMAIN users'[u] : \E j \in DOMAIN users[u] : users'[u][i] = users[u][j]

\* C15: a turn of a metered sender refused by the rate check sends exactly one
\* message, the rate-limit message with the time until reset as minutes and
\* seconds, writes one log record flagged rate limited, records no timestamp,
\* calls neither client and does not touch the conversation store.
C15_RateLimitedTurn ==
    [][\A t \in Turns :
          /\ (pc[t] = "idle" /\ pc'[t] = "limited") =>
                /\ ~canProceed(turnUser'[t])
                /\ NoNewTimestamp(turnUser'[t])
                /\ UNCHANGED storeVars
          /\ (pc[t] = "limited" /\ pc'[t] # "limited") =>
                /\ RateLimited(t)'
                /\ RateLimitedOutcome(t)'
                /\ timeRemaining'[t] = TimeUntilLimitReset(turnUser[t])
                /\ users' = users
                /\ UNCHANGED storeVars]_vars

C15_Witness ==
    \E t \in Turns :
        /\ RateLimited(t)
        /\ limitMsg[t] = [minutes |-> 1, seconds |-> 30]
        /\ timeRemaining[t] = duration
        /\ Len(users[turnUser[t]]) = limit

\* C16: a turn returns an error to its caller only when its generative call
\* failed; a rate-limited turn ends with a reply and a nil error.
C16_ErrorOnlyFromGenerative ==
    \A t \in Turns :
        (pc[t] = "done" /\ HasEvent(t, "send_limit")) => result[t] = "nil"

\* Turn t is under way or has returned, and its sender is in NoLimitUsers.
Unmetered(t) == pc[t] \notin {"idle", "gone"} /\ isNoLimitUser(turnUser[t])

\* C23: a turn of a sender in NoLimitUsers is never refused by the rate check,
\* however many messages of the sender lie in the window: it sends no rate-limit
\* message and goes on to the lookup or to the generative client.
C23_UnmeteredNeverLimited ==
    \A t \in Turns :
        Unmetered(t) =>
            /\ pc[t] # "limited"
            /\ result[t] # "rate_limited"
            /\ ~HasEvent(t, "send_limit")
            /\ ~HasEvent(t, "log_limited")
            /\ pc[t] \in {"kb", "ai", "done"} => HasEvent(t, "kb") \/ HasEvent(t, "ai")

C23_Witness ==
    \E t \in Turns :
        /\ Unmetered(t)
        /\ pc[t] = "done"
        /\ result[t] = "nil"
        /\ Len(filterRecentMessages(turnUser[t])) > limit

\* C24: every turn that ProcessMessage handles, a rate-limited one included, has
\* called SendMessage at least once when it returns, unless it returns the error
\* of the generative client.
C24_AlwaysReplies ==
    \A t \in Turns :
        (pc[t] = "done" /\ result[t] # "error_ai") =>
            HasEvent(t, "send") \/ HasEvent(t, "send_limit")

C24_Witness ==
    \E t \in Turns :
        /\ RateLimited(t)
        /\ events[t][1] = "send_limit"
        /\ \E s \in Turns : s # t /\ pc[s] = "gone"

\* The positions of call c among the calls of turn t.
At(t, c) == {i \in DOMAIN events[t] : events[t][i] = c}

\* C25: in every turn that produces an answer, from the lookup or from the
\* generative client, the context is stored before the reply is sent and the
\* reply is sent before the turn is logged; no reply is sent before the store.
C25_StoreSendLog ==
    \A t \in Turns :
        (pc[t] = "done" /\ result[t] = "nil") =>
            /\ \A i \in At(t, "send") : \E j \in At(t, "set") : j < i
            /\ \A i \in At(t, "log") : \E j \in At(t, "send") : j < i

\* The utterances of history h: h[1] is the system utterance, then come pairs.
Pairs(h) == (Len(h) - 1) \div 2

\* History h is the system utterance followed by user/assistant pairs, each pair
\* of one turn, the turns of the pairs in increasing order.
WellFormedHistory(h) ==
    /\ Len(h) >= 3
    /\ Len(h) % 2 = 1
    /\ h[1] = <<"system", "prompt">>
    /\ \A i \in 1..Pairs(h) :
          /\ h[2 * i][1] = "user"
          /\ h[2 * i + 1][1] = "assistant"
          /\ h[2 * i][2][1] = "q"
          /\ h[2 * i + 1][2][1] \in {"kb", "ai"}
          /\ h[2 * i][2][2] = h[2 * i + 1][2][2]
          /\ i > 1 => h[2 * i - 1][2][2] < h[2 * i][2][2]

\* The step is the one Set of turn t: it stores, under the key of the sender, the
\* messages the turn loaded, then its user utterance, then its assistant utterance.
IsSetOf(t) ==
    /\ Count(t, "set") = 0
    /\ Count(t, "set")' = 1
    /\ pc[t] \in {"kb", "ai"}
    /\ pc'[t] = "done"
    /\ \E src \in {"kb", "ai"} :
          data' = Set(turnUser[t],
                      Marshal(messages[t]) \o <<<<"assistant", <<src, t>>>>>>)

\* The step stores no entry: it leaves the map as it is, or only removes entries
\* that have expired (the cleanup goroutine).
StoresNothing ==
    /\ DOMAIN data' \subseteq DOMAIN data
    /\ \A k \in DOMAIN data' : data'[k] = data[k]
    /\ \A k \in DOMAIN data \ DOMAIN data' : now - data[k].lastSeen > expiry

\* C26: with turns one at a time, an entry of the store is written only by the
\* one Set of an answered turn, which stores what the turn loaded (the history
\* found, or the system utterance alone), then the user utterance and the
\* assistant utterance of that turn; a turn sets at most once; so every stored
\* history is the system utterance followed by user/assistant pairs in turn order.
C26_OneSetPerTurn ==
    /\ [][/\ StoresNothing \/ \E t \in Turns : IsSetOf(t)
          /\ \A t \in Turns :
                /\ Count(t, "set")' <= 1
                /\ (pc[t] = "load" /\ pc'[t] = "gate") =>
                      /\ messages'[t][Len(messages'[t])] =
                            [Role |-> "user", Content |-> <<"q", t>>]
                      /\ SubSeq(messages'[t], 1, Len(messages'[t]) - 1) =
                            (IF Get(turnUser[t]).found
                             THEN Unmarshal(data[turnUser[t]].data)
                             ELSE <<SystemPrompt>>)
                /\ (pc[t] \in {"gate", "kb"} /\ pc'[t] \in {"kb", "ai"}) =>
                      messages'[t] = messages[t]
                /\ (pc'[t] = "done" /\ result'[t] = "nil" /\ pc[t] # "done"
                      /\ ~HasEvent(t, "send_limit")') => IsSetOf(t)]_vars
    /\ [](\A k \in DOMAIN data : WellFormedHistory(data[k].data))

C26_Witness ==
    \E k \in DOMAIN data :
        /\ Len(data[k].data) = 5
        /\ data[k].data[3][2][1] = "kb"
        /\ data[k].data[5][2][1] = "ai"

-----------------------------------------------------------------------------
\* Claims about commands and callback queries (SpecDispatch, SpecCommand).

\* C17: a callback whose token is not in the registry gets the not-recognized
\* reply and stops: no client is called, no usage record and no store entry
\* changes, and the process does not crash.
C17_UnknownTokenRejected ==
    [][\A k \in Updates :
          (/\ upd[k].pc = "cb"
           /\ upd'[k].pc # "cb"
           /\ upd[k].arg.parts[1] \notin promptMap) =>
              /\ upd'[k].pc = "done"
              /\ upd'[k].calls = <<"send_not_recognized">>
              /\ ~crashed'
              /\ users' = users
              /\ data' = data
              /\ pc' = pc]_vars

\* C31: a callback whose token a /help has registered resolves to its prompt
\* (ProcessMessage is called for it) under every interleaving of /help handlers
\* and callbacks: the lookup never ends the process, and no two goroutines are
\* inside an assignment to the registry at once.
C31_RegisteredTokenResolves ==
    /\ [][\A k \in Updates :
            (/\ upd[k].pc = "cb"
             /\ upd'[k].pc # "cb"
             /\ upd[k].arg.parts[1] \in promptMap) =>
                /\ upd'[k].pc = "process"
                /\ ~crashed']_vars
    /\ [](writers <= 1)

\* C33: no turn reads the health flag (line 220, reached only when the knowledge
\* base is usable) or writes it (line 231) while the monitor goroutine is inside
\* its own assignment to the flag.
C33_FlagAccessGuarded ==
    [][\A t \in Turns :
          (/\ KnowledgeBaseUsable
           /\ monPc = "assign"
           /\ pc[t] \in {"gate", "kb"}
           /\ pc'[t] # pc[t]) =>
              /\ pc[t] = "kb"
              /\ pendingNext' = pendingNext]_vars

\* C34: when CanUserChat, AddUsage or TimeUntilLimitReset returns for a sender
\* (CanUserChat is called for metered senders only), the stored record of that
\* sender holds no timestamp older than the window.
C34_PrunedAfterEveryOperation ==
    [][\A u \in Senders :
          (\/ users'[u] # users[u]
           \/ ~isNoLimitUser(u) /\ pendingAdd'[u] > pendingAdd[u]
           \/ pendingTUR'[u] # pendingTUR[u]) =>
              \A i \in DOMAIN users'[u] : now' - users'[u][i] <= duration]_vars

\* What Get returns in a store that never deletes: the value of the last Set of
\* the key while that Set is at most expiry old.
GetWithoutSweeper(k) ==
    IF lastSet[k].at >= 0 /\ now - lastSet[k].at <= expiry
    THEN [found |-> TRUE, data |-> lastSet[k].data]
    ELSE [found |-> FALSE, data |-> ""]

\* C35: a pass of the cleanup goroutine deletes only entries that Get already
\* reports as absent and changes the answer of Get for no key, and at every
\* instant Get answers for every key as a store without the goroutine would.
C35_SweeperInvisible ==
    /\ [][sweepDue' # sweepDue =>
            /\ \A k \in DOMAIN data \ DOMAIN data' : ~Get(k).found
            /\ \A k \in DOMAIN data' : data'[k] = data[k]
            /\ \A k \in Keys : Get(k)' = Get(k)]_vars
    /\ [](\A k \in Keys : Get(k) = GetWithoutSweeper(k))

\* The cleanup goroutine has deleted an entry and a Get of its key has answered since.
C35_Witness ==
    \E k \in Keys :
        /\ lastSet[k].at >= 0
        /\ k \notin DOMAIN data
        /\ lastGet.key = k
        /\ lastGet.at = now
        /\ ~lastGet.found

\* C36: once Close has been called the cleanup goroutine ends; from then on it
\* deletes nothing and its ticker is never served again, while Set and Get can
\* still be called and Get alone refuses the entries older than expiry.
C36_CloseStopsSweeper ==
    /\ closed ~> cleanup = "stopped"
    /\ [][cleanup = "stopped" =>
            /\ cleanup' = "stopped"
            /\ sweepDue' = sweepDue
            /\ DOMAIN data \subseteq DOMAIN data']_vars
    /\ [](cleanup = "stopped" =>
            /\ \A k \in Keys : Get(k) = GetWithoutSweeper(k)
            /\ \A k \in Keys : ENABLED SGet(k)
            /\ \A k \in Keys, v \in StoreValues : ENABLED SSet(k, v))

\* The goroutine has ended, an entry older than expiry is still in the map past
\* the time of the next tick, and a Get of its key has just answered not found.
C36_Witness ==
    \E k \in DOMAIN data :
        /\ cleanup = "stopped"
        /\ now >= sweepDue
        /\ now - data[k].lastSeen > expiry
        /\ lastGet.key = k
        /\ lastGet.at = now
        /\ ~lastGet.found

\* Turn t has passed the rate check and recorded its usage.
Recorded(t) ==
    \/ pc[t] \in {"load", "gate", "kb", "ai"}
    \/ pc[t] = "done" /\ result[t] # "rate_limited"

\* C37: an accepted turn appends one timestamp, the present time, to the record
\* of its sender before it has made any lookup or generative call, no later step
\* of the turn changes the usage records, whatever the turn returns, and a
\* refused turn appends nothing.
C37_OneTimestampPerAcceptedTurn ==
    /\ [][\A t \in Turns :
            /\ (pc[t] = "add" /\ pc'[t] # "add") =>
                  /\ events[t] = <<>>
                  /\ users' = [users EXCEPT ![turnUser[t]] = Append(@, now)]
            /\ (Recorded(t) /\ pc'[t] # pc[t]) => users' = users
            /\ (pc[t] = "limited" /\ pc'[t] # pc[t]) => users' = users]_vars
    /\ [](\A t \in Turns : Recorded(t) => users[turnUser[t]] # <<>>)

\* A turn has returned the error of the generative client and its one timestamp
\* is on record.
C37_Witness ==
    \E t \in Turns :
        /\ pc[t] = "done"
        /\ result[t] = "error_ai"
        /\ users[turnUser[t]] = <<now>>

\* C38: while the flag is set no turn sends a lookup; the flag is cleared only by
\* the return of a probe of the monitor that succeeded, never by a turn; and
\* with the knowledge base switched off or without a client the monitor sends no
\* probe, no turn sends a lookup and the flag stays clear.
C38_DownUntilProbeSucceeds ==
    /\ [][/\ isKnowledgeBaseDown => inFlight' <= inFlight
          /\ (isKnowledgeBaseDown /\ ~isKnowledgeBaseDown') =>
                /\ monPc = "probe"
                /\ monPc' = "sleep"
                /\ FALSE \in probeSaw
                /\ lastProbe' = "ok"
                /\ inFlight' = inFlight]_vars
    /\ [](~KnowledgeBaseUsable =>
            /\ ~isKnowledgeBaseDown
            /\ monPc = "sleep"
            /\ lastProbe = "none"
            /\ inFlight = 0)

\* A failed lookup of a turn has set the flag after the last probe succeeded,
\* no lookup is in flight, and a probe that can succeed is in flight.
C38_Witness ==
    /\ isKnowledgeBaseDown
    /\ lastProbe = "ok"
    /\ inFlight = 0
    /\ monPc = "probe"
    /\ FALSE \in probeSaw

\* C39: a /rate command with a KB number and a rating of Helpful or Not Helpful
\* ends, in every configuration, with the handler returned after a reply to the
\* user as its last call, and the process alive.
C39_RateAlwaysReplies ==
    [][\A k \in Updates :
          (/\ upd[k].kind = "/rate"
           /\ upd[k].pc = "cmd"
           /\ RateRejects(upd[k].arg) = <<>>
           /\ upd'[k].pc # "cmd") =>
              /\ ~crashed'
              /\ upd'[k].pc = "done"
              /\ upd'[k].calls # <<>>
              /\ upd'[k].calls[Len(upd'[k].calls)] \in {"send_thanks", "send_rate_failed"}]_vars

\* C40: the stored log is the header row followed, in call order, by the record
\* of every call of logToS3 whose upload succeeded (no such record is ever
\* missing from it), whatever the downloads of the later calls returned.
C40_LogAppendOnly ==
    uploaded # <<>> =>
        /\ s3Object # <<>>
        /\ s3Object[1] = Headers
        /\ LET Kept(r) == \E i \in DOMAIN uploaded : uploaded[i] = r
           IN  SelectSeq(Tail(s3Object), Kept) = uploaded

\* Slot k holds a callback whose token was found and for which ProcessMessage
\* has been called.
CallbackTurn(k) == upd[k].kind = "callback" /\ upd[k].pc = "called"

\* C32: a callback with a registered token is processed by ProcessMessage as a
\* question of the sender of the callback: the turn is accepted exactly when the
\* sender is unmetered or has fewer than limit timestamps in the window, an
\* accepted turn records one timestamp (at its AddUsage step and nowhere else),
\* and a refused turn sends the rate-limit message and returns rate limited.
C32_CallbackAsQuestion ==
    [][\A k \in Updates, t \in Turns :
          CallbackTurn(k) =>
              LET u == upd[k].user
              IN  /\ (pc[t] = "idle" /\ pc'[t] # "idle") =>
                        /\ turnUser'[t] = u
                        /\ pc'[t] = IF u \in NoLimitUsers
                                       \/ Len(filterRecentMessages(u)) < limit
                                    THEN "add" ELSE "limited"
                        /\ Len(users'[u]) <= Len(users[u])
                  /\ (pc[t] = "add" /\ pc'[t] # "add") =>
                        /\ pc'[t] = "load"
                        /\ users'[u] = Append(users[u], now)
                  /\ (pc[t] \in {"load", "gate", "kb", "ai", "done"} /\ pc'[t] # pc[t]) =>
                        users' = users
                  /\ (pc[t] = "limited" /\ pc'[t] # "limited") =>
                        /\ users' = users
                        /\ pc'[t] = "done"
                        /\ result'[t] = "rate_limited"
                        /\ events'[t] = <<"send_limit", "log_limited">>
                  /\ (pc[t] = "done" /\ pc'[t] = "gone") =>
                        /\ upd'[k].pc = "done"
                        /\ upd'[k].calls = Append(upd[k].calls, "ProcessMessage")
                        /\ upd'[k].ret = "nil" <=> result[t] = "nil"]_vars

C32_Witness ==
    \E k \in Updates, t \in Turns :
        /\ CallbackTurn(k)
        /\ upd[k].arg.parts[1] \in promptMap
        /\ pc[t] = "done"
        /\ result[t] = "rate_limited"
        /\ turnUser[t] = upd[k].user
        /\ Len(users[upd[k].user]) = limit

\* A /learn command of a sender outside NoLimitUsers has been handled.
LearnRefused(k) ==
    upd[k].kind = "/learn" /\ upd[k].pc = "done" /\ upd[k].user \notin NoLimitUsers

Calls(k, c) == \E i \in DOMAIN upd[k].calls : upd[k].calls[i] = c

\* C18 as stated: a /learn command of a sender outside the unmetered set is
\* answered with the not-authorized message and makes no training call, for every
\* argument and every setting of the knowledge-base switch.
C18_LearnNotAuthorized ==
    \A k \in Updates :
        LearnRefused(k) =>
            upd[k].calls = <<"send_not_authorized">> /\ upd[k].ret = "nil"

\* C18, amended: such a command makes no training call and is answered with one
\* message: the not-authorized message when the knowledge base is switched on,
\* the training-disabled message when it is switched off.
C18_LearnRefusedWithoutTraining ==
    \A k \in Updates :
        LearnRefused(k) =>
            /\ ~Calls(k, "train")
            /\ upd[k].ret = "nil"
            /\ upd[k].calls = IF KnowledgeBaseActive THEN <<"send_not_authorized">>
                              ELSE <<"send_disabled">>

C18_Witness ==
    \E k \in Updates :
        /\ LearnRefused(k)
        /\ KnowledgeBaseActive
        /\ parseTrainingData(upd[k].arg.parts)
        /\ upd[k].calls = <<"send_not_authorized">>

-----------------------------------------------------------------------------
\* Claims about the classification of a message (SpecClassify).

\* The bytes of the i-th span of the message, if the span lies within the text.
InRange(i) == msg.entities[i].Offset + msg.entities[i].Length <= Len(msg.text)

Span(i) ==
    SubSeq(msg.text, msg.entities[i].Offset + 1, msg.entities[i].Offset + msg.entities[i].Length)

\* The i-th span is an in-range mention of the bot, in any case of the letters.
MentionsBot(i) ==
    /\ msg.entities[i].Type = "mention"
    /\ InRange(i)
    /\ Span(i) \in {<<"@", "B">>, <<"@", "b">>}

\* sub occurs in text at position p and nowhere before.
FirstOccurrence(text, sub, p) ==
    /\ p \in 1..(Len(text) - Len(sub) + 1)
    /\ SubSeq(text, p, p + Len(sub) - 1) = sub
    /\ \A q \in 1..(p - 1) : SubSeq(text, q, q + Len(sub) - 1) # sub

\* r is str without the spaces at its two ends.
IsTrimOf(r, str) ==
    \E a \in 1..(Len(str) + 1), b \in 0..Len(str) :
        /\ r = SubSeq(str, a, b)
        /\ \A i \in 1..(a - 1) : str[i] = " "
        /\ \A i \in (b + 1)..Len(str) : str[i] = " "
        /\ r # <<>> => r[1] # " " /\ r[Len(r)] # " "

\* C19: a message with a chat and a non-empty text not starting with "/" that has
\* an in-range mention span equal to "@" + the bot's name, ignoring case, is a
\* DirectQuestion in every chat type; its question is the text with the first
\* occurrence of that mention (the first such span of the list) removed and the
\* surrounding spaces trimmed.
C19_MentionIsDirectQuestion ==
    (/\ intent # NoIntent
     /\ msg.chatID # 0 /\ msg.text # <<>> /\ msg.text[1] # "/"
     /\ \E i \in DOMAIN msg.entities : MentionsBot(i)) =>
        /\ intent.kind = "DirectQuestion"
        /\ \E i \in DOMAIN msg.entities :
              /\ MentionsBot(i)
              /\ \A j \in 1..(i - 1) : ~MentionsBot(j)
              /\ \E p \in 1..Len(msg.text) :
                    /\ FirstOccurrence(msg.text, Span(i), p)
                    /\ IsTrimOf(intent.text,
                                SubSeq(msg.text, 1, p - 1)
                                    \o SubSeq(msg.text, p + Len(Span(i)), Len(msg.text)))

C19_Witness ==
    /\ intent.kind = "DirectQuestion"
    /\ msg.chatType = "group"
    /\ msg.reply = "none"
    /\ msg.text = <<" ", "@", "b">>
    /\ msg.entities = <<[Type |-> "mention", Offset |-> 0, Length |-> 3],
                        [Type |-> "mention", Offset |-> 1, Length |-> 2]>>
    /\ intent.text = <<>>

\* C20: a message in a non-private chat with no mention span matching the bot and
\* which is not a reply to a message sent by the bot is ignored; a reply to
\* somebody else's message does not make it eligible. (Stated here for the texts
\* that are not commands.)
C20_IneligibleIsIgnored ==
    (/\ intent # NoIntent
     /\ msg.chatType # "private"
     /\ ~\E i \in DOMAIN msg.entities : MentionsBot(i)
     /\ msg.reply # "this_bot"
     /\ ~HasPrefix(msg.text)) =>
        intent.kind = "Ignore"

\* C21: a message of a private chat with a chat identifier and a non-empty text
\* is never ignored: it goes to the command handler if its text starts with "/"
\* and to question processing otherwise, whatever its spans and its reply status.
C21_PrivateNeverIgnored ==
    (/\ intent # NoIntent
     /\ msg.chatType = "private"
     /\ msg.chatID # 0
     /\ msg.text # <<>>) =>
        /\ intent.kind \in {"Command", "DirectQuestion"}
        /\ intent.kind = "Command" <=> msg.text[1] = "/"

C21_Witness ==
    /\ intent.kind = "DirectQuestion"
    /\ msg.chatType = "private"
    /\ msg.chatID # 0
    /\ msg.reply = "none"
    /\ msg.entities = <<>>
    /\ msg.text = <<" ", "b", " ">>
    /\ intent.text = msg.text

\* The text has no space.
NoSpace(text) == \A i \in DOMAIN text : text[i] # " "

\* C27: a message with a chat whose text starts with "/" is a Command in every
\* chat type, with any spans and any reply status; its name is the text before
\* the first space and its argument string what follows that space (possibly
\* empty; absent when the text has no space).
C27_CommandBeforeEligibility ==
    (/\ intent # NoIntent
     /\ msg.chatID # 0
     /\ msg.text # <<>>
     /\ msg.text[1] = "/") =>
        /\ intent.kind = "Command"
        /\ LET parts == intent.commandParts
           IN  /\ NoSpace(parts[1])
               /\ parts[1][1] = "/"
               /\ \/ Len(parts) = 1 /\ msg.text = parts[1]
                  \/ Len(parts) = 2 /\ msg.text = parts[1] \o <<" ">> \o parts[2]

C27_Witness ==
    /\ intent.kind = "Command"
    /\ msg.chatType = "group"
    /\ msg.reply = "none"
    /\ msg.entities = <<>>
    /\ msg.text = <<"/", " ", " ">>
    /\ intent.commandParts = <<<<"/">>, <<" ">>>>

\* The message without its i-th span.
WithoutSpan(i) ==
    [msg EXCEPT !.entities = SubSeq(@, 1, i - 1) \o SubSeq(@, i + 1, Len(@))]

\* C30: a mention span whose offset + length exceeds the length of the text is
\* skipped: the message is classified exactly as the same message without that
\* span, so the spans after it are still examined.
C30_LongSpanSkipped ==
    intent # NoIntent =>
        \A i \in DOMAIN msg.entities :
            (msg.entities[i].Type = "mention" /\ ~InRange(i)) =>
                intent = HandleTelegramMessage(WithoutSpan(i))

C30_Witness ==
    /\ intent.kind = "DirectQuestion"
    /\ msg.chatType = "group"
    /\ msg.reply = "none"
    /\ msg.text = <<"@", "B", " ">>
    /\ msg.entities = <<[Type |-> "mention", Offset |-> 2, Length |-> 2],
                        [Type |-> "mention", Offset |-> 0, Length |-> 2]>>
    /\ intent.text = <<>>

-----------------------------------------------------------------------------
\* Claims about what is done with a classified message (SpecRoute).

\* The step leaves every usage record, the conversation store, the prompt
\* registry and the health state as they are, and no turn of ProcessMessage
\* starts or moves.
NoWork ==
    /\ UNCHANGED <<limVars, storeVars, healthVars, promptMap, writers, crashed>>
    /\ UNCHANGED <<pc, turnUser, messages, timeRemaining, events, result, outVars>>

\* C28: the handling of a message classified as Ignore sends nothing, calls no
\* client, writes no log record and changes no usage record, store entry,
\* registry entry or health state: from its classification to the end of
\* HandleUpdate it makes no call at all.
C28_IgnoreDoesNothing ==
    [][\A k \in Updates :
          /\ (upd[k].pc = "msg" /\ upd'[k].pc # "msg" /\ intent'.kind = "Ignore") =>
                /\ upd'[k].pc = "done"
                /\ upd'[k].calls = <<>>
                /\ NoWork
          /\ (upd[k].kind = "Ignore" /\ upd'[k] # upd[k]) =>
                /\ upd[k].calls = <<>>
                /\ upd'[k].pc = "gone"
                /\ NoWork]_vars

C28_Witness ==
    \E k \in Updates :
        /\ upd[k].kind = "Ignore"
        /\ upd[k].pc = "done"
        /\ msg.chatID # 0
        /\ msg.chatType = "group"
        /\ msg.text = <<"b">>
        /\ msg.reply = "person"
        /\ \E u \in Senders : users[u] # <<>> /\ u \in DOMAIN data

\* The update of slot k is a command being handled by HandleCommand.
IsCommand(k) == upd[k].kind \in Commands

\* C29: the handling of a command (/learn, /rate, /help or an unknown one) never
\* consults the limiter: no step of it reads or prunes a usage record through
\* CanUserChat, adds a timestamp or starts ProcessMessage, and the command gets
\* the reply of its own handler also when its sender is over the limit.
C29_CommandSkipsLimiter ==
    [][\A k \in Updates :
          /\ (upd[k].pc = "msg" /\ upd'[k].pc # "msg" /\ intent'.kind = "Command") =>
                /\ upd'[k].pc = "cmd"
                /\ IsCommand(k)'
                /\ NoWork
          /\ (IsCommand(k) /\ upd'[k] # upd[k]) =>
                /\ UNCHANGED limVars
                /\ UNCHANGED <<pc, turnUser, events, result>>
                /\ upd'[k].pc = "done" =>
                      /\ upd'[k].calls # <<>>
                      /\ ~\E i \in DOMAIN upd'[k].calls :
                            upd'[k].calls[i] \in {"ProcessMessage", "send_limit"}]_vars

C29_Witness ==
    \E k \in Updates :
        /\ upd[k].kind = "/help"
        /\ upd[k].pc = "done"
        /\ Calls(k, "send_help")
        /\ ~isNoLimitUser(upd[k].user)
        /\ ~CanUserChat(upd[k].user)
        /\ Len(users[upd[k].user]) = limit
        /\ msg.chatType = "group"

-----------------------------------------------------------------------------
\* Claims about the text of an answer (SpecCompose).

\* C22: the text handed to SendMessage for an answer, the trailer of a knowledge
\* entry and everything else the composer appends included, is at most
\* ChannelLimit long, whether the answer comes from OpenAI or from the lookup.
C22_WithinChannelLimit == finalMessage <= ChannelLimit

=============================================================================
